---- MODULE Spec2Model ----
(***************************************************************************)
(* A model of dns_query_utility: the worker pool (worker/pool.go) and the  *)
(* query executor (query/executor.go, the miekg/dns based ExecuteQuery).   *)
(*                                                                         *)
(* The pool is modelled goroutine by goroutine: the caller (main), the     *)
(* submitter, the closer, and one process per worker, communicating over   *)
(* two buffered channels.  A spec is named by its index in the submitted   *)
(* slice (spec i is specs[i-1] of the Go code); a result echoes the index  *)
(* of the spec it was computed from.                                       *)
(***************************************************************************)
EXTENDS Integers, Sequences, FiniteSets, TLC

\* Largest worker count and largest batch the pool is explored with.
PoolMaxW == 2
PoolMaxN == 3
\* Largest cfg.RetryCount a query is explored with.
MaxRetry == 1

VARIABLES
    \* ---- worker pool (worker/pool.go) ----
    workerCount,    \* Pool.workerCount (cfg.WorkerCount)
    totalJobs,      \* len(specs)
    jobs,           \* Pool.jobs: buffered content, oldest first
    jobsClosed,     \* close(p.jobs) has happened
    results,        \* Pool.results: buffered content, oldest first
    resultsClosed,  \* close(p.results) has happened
    wg,             \* Pool.wg: the WaitGroup counter
    wpc,            \* position of each worker goroutine
    wspec,          \* the spec a worker holds (0: none)
    startI,         \* loop variable i of Pool.Start
    mainPc,         \* position of the calling goroutine
    subPc,          \* position of the submitter goroutine
    subI,           \* index of the next spec to submit
    closerPc,       \* position of the goroutine that closes results
    collected,      \* the caller's results slice
    panicked,       \* a goroutine panicked (send on / close of a closed channel)
    hung,           \* the worker whose query never returns (0: none)
    \* ---- one call of query.ExecuteQuery (query/executor.go) ----
    cfgRetry,       \* cfg.RetryCount
    cfgV4,          \* cfg.DNSServerIPv4 ("": not configured)
    cfgV6,          \* cfg.DNSServerIPv6 ("": not configured)
    qIP,            \* spec.IPVersion.String()
    qTransport,     \* spec.Transport.String()
    qDomain,        \* spec.Domain: its labels (a trailing dot: a last label "")
    qpc,            \* position inside ExecuteQuery
    attempt,        \* loop variable of the retry loop
    server,         \* local server: <<host, port>> as net.JoinHostPort joins them
    network,        \* local network
    err,            \* local err ("": nil)
    response,       \* local response (NoResponse: nil)
    res,            \* the QueryResult under construction
    events,         \* what the call did to the outside: exchanges and sleeps, in order
    \* ---- the wire codec and the TCP transport (query/builder.go, executor.go) ----
    build,          \* one call of BuildDNSQuery: arguments, position, return values
    parse,          \* one call of ParseDNSResponse: argument, position, return values
    rd,             \* one call of readDomainName: arguments, locals, return values
    tcp,            \* one call of executeTCP: the connection, locals, return values
    \* ---- the rest of the program (executor.go, config/config.go, main.go) ----
    udp,            \* one call of executeUDP: the connection, locals, return values
    scale,          \* calls of config.CalculateOptimalWorkers: arguments, return values
    cli,            \* main: the servers of the command line, the Config, a query's server
    expand,         \* one call of expandToAllTypes: argument, locals, return value
    conns           \* every connection the process has opened, in order of opening

poolVars == <<workerCount, totalJobs, jobs, jobsClosed, results, resultsClosed,
              wg, wpc, wspec, startI, mainPc, subPc, subI, closerPc,
              collected, panicked, hung>>

queryVars == <<cfgRetry, cfgV4, cfgV6, qIP, qTransport, qDomain, qpc, attempt, server,
               network, err, response, res, events>>

codecVars == <<build, parse, rd, tcp>>

toolVars == <<udp, scale, cli, expand, conns>>

vars == <<poolVars, queryVars, codecVars, toolVars>>

\* What the pool does not touch, and what ExecuteQuery does not touch.
nonPoolVars == <<queryVars, codecVars, toolVars>>
nonQueryVars == <<poolVars, codecVars, toolVars>>
nonCodecVars == <<poolVars, queryVars, toolVars>>
nonToolVars == <<poolVars, queryVars, codecVars>>

Workers == 1..workerCount

Range(s) == {s[k] : k \in DOMAIN s}

\* make(chan ..., workerCount*2): the capacity of both channels.
ChanCap == workerCount * 2

(***************************************************************************)
(* Values of query.ExecuteQuery.                                           *)
(***************************************************************************)

\* cfg.DNSPort as main sets it when no port is given.
DNSPort == 53

\* time.Sleep(100 * time.Millisecond) between two attempts.
RetryDelayMs == 100

\* dns.RcodeSuccess, dns.RcodeServerFailure, dns.RcodeNameError,
\* dns.RcodeRefused.
RcodeSuccess == 0
RcodeServerFailure == 2
RcodeNameError == 3
RcodeRefused == 5

\* The 4-bit response code of a DNS message.
Rcodes == 0..15

\* A nil *dns.Msg.
NoResponse == [rcode |-> -1, answer |-> <<>>, ns |-> <<>>, extra |-> <<>>]

\* A []string: Go tells a nil slice from an empty one.
NilSlice == [isNil |-> TRUE, elems |-> <<>>]
Slice(q) == [isNil |-> FALSE, elems |-> q]

\* result.QueryResult as ExecuteQuery first builds it.
NewResult ==
    [Status |-> "error", Error |-> "", ResponseCode |-> 0,
     ResolvedIPs |-> <<>>, Records |-> <<>>, AuthoritativeNS |-> Slice(<<>>),
     LatencyMs |-> 0]

\* No call of ExecuteQuery is modelled (the pool's runs).
QueryIdle ==
    /\ cfgRetry = 0
    /\ cfgV4 = ""
    /\ cfgV6 = ""
    /\ qIP = "ipv4"
    /\ qTransport = "udp"
    /\ qDomain = <<>>
    /\ qpc = "idle"
    /\ attempt = 0
    /\ server = <<"", 0>>
    /\ network = ""
    /\ err = ""
    /\ response = NoResponse
    /\ res = NewResult
    /\ events = <<>>

\* No call of the codec or of the transport is modelled.
NoCall == [pc |-> "idle"]
BuildIdle == build = NoCall
ParseIdle == parse = NoCall
ReadNameIdle == rd = NoCall
TCPIdle == tcp = NoCall
CodecIdle == BuildIdle /\ ParseIdle /\ ReadNameIdle /\ TCPIdle
UDPIdle == udp = NoCall
ScaleIdle == scale = NoCall
CliIdle == cli = NoCall
ExpandIdle == expand = NoCall
NoConns == conns = <<>>
ToolIdle == UDPIdle /\ ScaleIdle /\ CliIdle /\ ExpandIdle /\ NoConns

(***************************************************************************)
(* NewPool: the state after construction, for every worker count and batch *)
(* size within the bounds.  No goroutine runs yet.                         *)
(***************************************************************************)
InitPool ==
    /\ workerCount \in 0..PoolMaxW
    /\ totalJobs \in 0..PoolMaxN
    /\ jobs = <<>>
    /\ jobsClosed = FALSE
    /\ results = <<>>
    /\ resultsClosed = FALSE
    /\ wg = 0
    /\ wpc = [w \in Workers |-> "unstarted"]
    /\ wspec = [w \in Workers |-> 0]
    /\ startI = 1
    /\ mainPc = "Start"
    /\ subPc = "unstarted"
    /\ subI = 1
    /\ closerPc = "unstarted"
    /\ collected = <<>>
    /\ panicked = FALSE
    /\ hung = 0

\* Pool.Start without p.wg.Add(1): the workers are not counted.
PoolStartNoAdd ==
    /\ mainPc = "Start"
    /\ startI <= workerCount
    /\ wpc' = [wpc EXCEPT ![startI] = "range"]
    /\ startI' = startI + 1
    /\ UNCHANGED <<workerCount, totalJobs, jobs, jobsClosed, results,
                   resultsClosed, wg, wspec, mainPc, subPc, subI, closerPc,
                   collected, panicked, hung>>
    /\ UNCHANGED nonPoolVars

\* Pool.Start, one iteration: p.wg.Add(1); go p.worker(i).
PoolStart ==
    /\ mainPc = "Start"
    /\ startI <= workerCount
    /\ wg' = wg + 1
    /\ wpc' = [wpc EXCEPT ![startI] = "range"]
    /\ startI' = startI + 1
    /\ UNCHANGED <<workerCount, totalJobs, jobs, jobsClosed, results,
                   resultsClosed, wspec, mainPc, subPc, subI, closerPc,
                   collected, panicked, hung>>
    /\ UNCHANGED nonPoolVars

\* Pool.Start returns; the caller starts the submitter goroutine.
SpawnSubmitter ==
    /\ mainPc = "Start"
    /\ startI > workerCount
    /\ subPc' = "submit"
    /\ mainPc' = "SpawnCloser"
    /\ UNCHANGED <<workerCount, totalJobs, jobs, jobsClosed, results,
                   resultsClosed, wg, wpc, wspec, startI, subI, closerPc,
                   collected, panicked, hung>>
    /\ UNCHANGED nonPoolVars

\* ExecuteWithProgress starts the goroutine that waits and closes results.
SpawnCloser ==
    /\ mainPc = "SpawnCloser"
    /\ closerPc' = "wait"
    /\ mainPc' = "collect"
    /\ UNCHANGED <<workerCount, totalJobs, jobs, jobsClosed, results,
                   resultsClosed, wg, wpc, wspec, startI, subPc, subI,
                   collected, panicked, hung>>
    /\ UNCHANGED nonPoolVars

\* Pool.Submit on a channel that never applies backpressure.
SubmitUnbounded ==
    /\ subPc = "submit"
    /\ subI <= totalJobs
    /\ jobs' = Append(jobs, subI)
    /\ subI' = subI + 1
    /\ UNCHANGED <<workerCount, totalJobs, jobsClosed, results, resultsClosed,
                   wg, wpc, wspec, startI, mainPc, subPc, closerPc,
                   collected, panicked, hung>>
    /\ UNCHANGED nonPoolVars

\* Pool.Submit: p.jobs <- spec.  The send completes only while the buffer
\* has room; with capacity 0 it needs a receiver, and a pool of capacity 0
\* has no worker.
Submit ==
    /\ subPc = "submit"
    /\ subI <= totalJobs
    /\ Len(jobs) < ChanCap
    /\ jobs' = Append(jobs, subI)
    /\ subI' = subI + 1
    /\ UNCHANGED <<workerCount, totalJobs, jobsClosed, results, resultsClosed,
                   wg, wpc, wspec, startI, mainPc, subPc, closerPc,
                   collected, panicked, hung>>
    /\ UNCHANGED nonPoolVars

\* Pool.Close, after the submitter's loop: close(p.jobs).
Close ==
    /\ subPc = "submit"
    /\ subI > totalJobs
    /\ jobsClosed' = TRUE
    /\ subPc' = "done"
    /\ UNCHANGED <<workerCount, totalJobs, jobs, results, resultsClosed,
                   wg, wpc, wspec, startI, mainPc, subI, closerPc,
                   collected, panicked, hung>>
    /\ UNCHANGED nonPoolVars

\* A worker that takes a spec only while no other worker is busy with one.
WorkerReceiveSerial(w) ==
    /\ wpc[w] = "range"
    /\ Len(jobs) > 0
    /\ \A v \in Workers : wpc[v] \notin {"exec", "blocked"}
    /\ wspec' = [wspec EXCEPT ![w] = Head(jobs)]
    /\ jobs' = Tail(jobs)
    /\ wpc' = [wpc EXCEPT ![w] = "exec"]
    /\ UNCHANGED <<workerCount, totalJobs, jobsClosed, results, resultsClosed,
                   wg, startI, mainPc, subPc, subI, closerPc,
                   collected, panicked, hung>>
    /\ UNCHANGED nonPoolVars

\* A worker that reads the head of the queue and leaves it there.
WorkerReceivePeek(w) ==
    /\ wpc[w] = "range"
    /\ Len(jobs) > 0
    /\ wspec' = [wspec EXCEPT ![w] = Head(jobs)]
    /\ wpc' = [wpc EXCEPT ![w] = "exec"]
    /\ UNCHANGED <<workerCount, totalJobs, jobs, jobsClosed, results,
                   resultsClosed, wg, startI, mainPc, subPc, subI, closerPc,
                   collected, panicked, hung>>
    /\ UNCHANGED nonPoolVars

\* Pool.worker: for spec := range p.jobs, a spec is received.
WorkerReceive(w) ==
    /\ wpc[w] = "range"
    /\ Len(jobs) > 0
    /\ wspec' = [wspec EXCEPT ![w] = Head(jobs)]
    /\ jobs' = Tail(jobs)
    /\ wpc' = [wpc EXCEPT ![w] = "exec"]
    /\ UNCHANGED <<workerCount, totalJobs, jobsClosed, results, resultsClosed,
                   wg, startI, mainPc, subPc, subI, closerPc,
                   collected, panicked, hung>>
    /\ UNCHANGED nonPoolVars

\* Pool.worker: the range loop ends on the closed and drained channel, and
\* the deferred p.wg.Done() runs.
WorkerExit(w) ==
    /\ wpc[w] = "range"
    /\ Len(jobs) = 0
    /\ jobsClosed
    /\ wpc' = [wpc EXCEPT ![w] = "done"]
    /\ wg' = wg - 1
    /\ UNCHANGED <<workerCount, totalJobs, jobs, jobsClosed, results,
                   resultsClosed, wspec, startI, mainPc, subPc, subI,
                   closerPc, collected, panicked, hung>>
    /\ UNCHANGED nonPoolVars

\* Pool.worker: res := query.ExecuteQuery(spec, p.config) returns.
QueryReturns(w) ==
    /\ wpc[w] = "exec"
    /\ wpc' = [wpc EXCEPT ![w] = "send"]
    /\ UNCHANGED <<workerCount, totalJobs, jobs, jobsClosed, results,
                   resultsClosed, wg, wspec, startI, mainPc, subPc, subI,
                   closerPc, collected, panicked, hung>>
    /\ UNCHANGED nonPoolVars

\* Pool.worker: p.results <- res.  A send on a closed channel panics; on an
\* open one it completes only while the buffer has room.
WorkerSend(w) ==
    /\ wpc[w] = "send"
    /\ IF resultsClosed
       THEN /\ panicked' = TRUE
            /\ wpc' = [wpc EXCEPT ![w] = "panic"]
            /\ UNCHANGED <<results, wspec>>
       ELSE /\ Len(results) < ChanCap
            /\ results' = Append(results, wspec[w])
            /\ wspec' = [wspec EXCEPT ![w] = 0]
            /\ wpc' = [wpc EXCEPT ![w] = "range"]
            /\ UNCHANGED panicked
    /\ UNCHANGED <<workerCount, totalJobs, jobs, jobsClosed, resultsClosed,
                   wg, startI, mainPc, subPc, subI, closerPc, collected, hung>>
    /\ UNCHANGED nonPoolVars

\* A closer that does not wait for the workers.
CloserWaitNoBarrier ==
    /\ closerPc = "wait"
    /\ closerPc' = "close"
    /\ UNCHANGED <<workerCount, totalJobs, jobs, jobsClosed, results,
                   resultsClosed, wg, wpc, wspec, startI, mainPc, subPc, subI,
                   collected, panicked, hung>>
    /\ UNCHANGED nonPoolVars

\* The closer goroutine: pool.wg.Wait() returns once the counter is 0.
CloserWait ==
    /\ closerPc = "wait"
    /\ wg = 0
    /\ closerPc' = "close"
    /\ UNCHANGED <<workerCount, totalJobs, jobs, jobsClosed, results,
                   resultsClosed, wg, wpc, wspec, startI, mainPc, subPc, subI,
                   collected, panicked, hung>>
    /\ UNCHANGED nonPoolVars

\* The closer goroutine: close(pool.results).
CloserClose ==
    /\ closerPc = "close"
    /\ closerPc' = "done"
    /\ IF resultsClosed
       THEN panicked' = TRUE /\ UNCHANGED resultsClosed
       ELSE resultsClosed' = TRUE /\ UNCHANGED panicked
    /\ UNCHANGED <<workerCount, totalJobs, jobs, jobsClosed, results,
                   wg, wpc, wspec, startI, mainPc, subPc, subI,
                   collected, hung>>
    /\ UNCHANGED nonPoolVars

\* ExecuteWithProgress: for res := range pool.results, one iteration, or
\* the end of the loop on a closed and drained channel, and the return.
Collect ==
    /\ mainPc = "collect"
    /\ IF Len(results) > 0
       THEN /\ collected' = Append(collected, Head(results))
            /\ results' = Tail(results)
            /\ UNCHANGED mainPc
       ELSE /\ resultsClosed
            /\ mainPc' = "returned"
            /\ UNCHANGED <<collected, results>>
    /\ UNCHANGED <<workerCount, totalJobs, jobs, jobsClosed, resultsClosed,
                   wg, wpc, wspec, startI, subPc, subI, closerPc,
                   panicked, hung>>
    /\ UNCHANGED nonPoolVars

Init == InitPool /\ QueryIdle /\ CodecIdle /\ ToolIdle

Next ==
    \/ PoolStart
    \/ SpawnSubmitter
    \/ SpawnCloser
    \/ Submit
    \/ Close
    \/ \E w \in Workers : WorkerReceive(w)
    \/ \E w \in Workers : WorkerExit(w)
    \/ \E w \in Workers : QueryReturns(w)
    \/ \E w \in Workers : WorkerSend(w)
    \/ CloserWait
    \/ CloserClose
    \/ Collect

\* ExecuteWithProgress, any scheduling.
Spec == Init /\ [][Next]_vars

\* ExecuteWithProgress under a scheduler that runs some runnable goroutine,
\* every query returning.
FairSpec == Spec /\ WF_vars(Next)

(***************************************************************************)
(* worker.Execute: the same pool, but the caller itself ranges over the    *)
(* results and calls pool.Wait() only after that loop.                     *)
(***************************************************************************)

\* Execute: pool.Start() has returned; the submitter goroutine is started.
ExecuteSpawnSubmitter ==
    /\ mainPc = "Start"
    /\ startI > workerCount
    /\ subPc' = "submit"
    /\ mainPc' = "range"
    /\ UNCHANGED <<workerCount, totalJobs, jobs, jobsClosed, results,
                   resultsClosed, wg, wpc, wspec, startI, subI, closerPc,
                   collected, panicked, hung>>
    /\ UNCHANGED nonPoolVars

\* Execute, the caller after the submitter is started: one iteration of
\* for res := range pool.Results(); then pool.Wait(), which is p.wg.Wait()
\* followed by close(p.results); then the return.
ExecuteMain ==
    /\ mainPc \in {"range", "Wait", "closeResults"}
    /\ CASE mainPc = "range" ->
              IF Len(results) > 0
              THEN /\ collected' = Append(collected, Head(results))
                   /\ results' = Tail(results)
                   /\ UNCHANGED <<mainPc, resultsClosed, panicked>>
              ELSE /\ resultsClosed
                   /\ mainPc' = "Wait"
                   /\ UNCHANGED <<collected, results, resultsClosed, panicked>>
         [] mainPc = "Wait" ->
              /\ wg = 0
              /\ mainPc' = "closeResults"
              /\ UNCHANGED <<collected, results, resultsClosed, panicked>>
         [] mainPc = "closeResults" ->
              /\ mainPc' = "returned"
              /\ IF resultsClosed
                 THEN panicked' = TRUE /\ UNCHANGED resultsClosed
                 ELSE resultsClosed' = TRUE /\ UNCHANGED panicked
              /\ UNCHANGED <<collected, results>>
    /\ UNCHANGED <<workerCount, totalJobs, jobs, jobsClosed, wg, wpc, wspec,
                   startI, subPc, subI, closerPc, hung>>
    /\ UNCHANGED nonPoolVars

NextExecute ==
    \/ PoolStart
    \/ ExecuteSpawnSubmitter
    \/ Submit
    \/ Close
    \/ \E w \in Workers : WorkerReceive(w)
    \/ \E w \in Workers : WorkerExit(w)
    \/ \E w \in Workers : QueryReturns(w)
    \/ \E w \in Workers : WorkerSend(w)
    \/ ExecuteMain

SpecExecute == Init /\ [][NextExecute]_vars

\* Execute under a scheduler that runs some runnable goroutine, every query
\* returning.
FairSpecExecute == SpecExecute /\ WF_vars(NextExecute)

(***************************************************************************)
(* ExecuteWithProgress when the network call of one worker never returns.  *)
(***************************************************************************)

\* query.ExecuteQuery of worker w blocks in its exchange for ever.
QueryHangs(w) ==
    /\ wpc[w] = "exec"
    /\ hung = 0
    /\ hung' = w
    /\ wpc' = [wpc EXCEPT ![w] = "blocked"]
    /\ UNCHANGED <<workerCount, totalJobs, jobs, jobsClosed, results,
                   resultsClosed, wg, wspec, startI, mainPc, subPc, subI,
                   closerPc, collected, panicked>>
    /\ UNCHANGED nonPoolVars

NextHang ==
    \/ Next
    \/ \E w \in Workers : QueryHangs(w)

SpecHang == Init /\ [][NextHang]_vars

FairSpecHang == SpecHang /\ WF_vars(NextHang)

(***************************************************************************)
(* The pool when its consumer stops reading the results channel early.     *)
(***************************************************************************)

\* The consumer gives up before every result has been delivered to it.
ConsumerStops ==
    /\ mainPc = "collect"
    /\ Len(collected) < totalJobs
    /\ mainPc' = "stopped"
    /\ UNCHANGED <<workerCount, totalJobs, jobs, jobsClosed, results,
                   resultsClosed, wg, wpc, wspec, startI, subPc, subI,
                   closerPc, collected, panicked, hung>>
    /\ UNCHANGED nonPoolVars

NextAbort ==
    \/ Next
    \/ ConsumerStops

SpecAbort == Init /\ [][NextAbort]_vars

FairSpecAbort == SpecAbort /\ WF_vars(NextAbort)

(***************************************************************************)
(* query.ExecuteQuery: one call, step by step.  The outside world answers  *)
(* each exchange with an error or with a response, chosen freely.          *)
(***************************************************************************)

\* The errors client.Exchange is explored with, and their text.
ErrMessages == {"i/o timeout", "connection refused"}

ErrChars(e) ==
    CASE e = "i/o timeout" ->
           <<"i", "/", "o", " ", "t", "i", "m", "e", "o", "u", "t">>
      [] e = "connection refused" ->
           <<"c", "o", "n", "n", "e", "c", "t", "i", "o", "n", " ",
             "r", "e", "f", "u", "s", "e", "d">>
      [] OTHER -> <<>>

TimeoutChars == <<"t", "i", "m", "e", "o", "u", "t">>

\* strings.Contains on character sequences.
Contains(str, sub) ==
    \E i \in 1..(Len(str) - Len(sub) + 1) :
        SubSeq(str, i, i + Len(sub) - 1) = sub

\* The sections a response is explored with: each record is named by its
\* type.
AnswerSections ==
    {<<>>, <<"A">>, <<"AAAA">>, <<"MX">>, <<"CNAME", "A">>, <<"TXT">>, <<"NS">>}
AuthoritySections == {<<>>, <<"NS">>, <<"SOA">>}
ExtraSections == {<<>>, <<"NS">>, <<"A">>}

Responses ==
    [rcode : Rcodes, answer : AnswerSections,
     ns : AuthoritySections, extra : ExtraSections]

\* The responses the NS lookup is explored with: NS records in the answer,
\* in the authority section, in the additional section, or nowhere.
NSLookupResponses ==
    {[rcode |-> 0, answer |-> <<"NS">>, ns |-> <<>>, extra |-> <<>>],
     [rcode |-> 0, answer |-> <<>>, ns |-> <<"NS">>, extra |-> <<>>],
     [rcode |-> 0, answer |-> <<"A">>, ns |-> <<"SOA">>, extra |-> <<"NS">>],
     [rcode |-> 3, answer |-> <<>>, ns |-> <<"SOA">>, extra |-> <<>>]}

MapSeq(q, F(_)) == [i \in 1..Len(q) |-> F(q[i])]

IsAddress(t) == t \in {"A", "AAAA"}
IsNotAddress(t) == ~IsAddress(t)
IsNS(t) == t = "NS"

\* rr.A.String() / rr.AAAA.String()
AddressText(t) == IF t = "A" THEN "93.184.216.34" ELSE "2606:2800:220:1::1"

\* rr.Ns of an NS record, and of an SOA record.
NSName(t) == "ns1.example.com."

\* parseAnswers: the text of a record that is not an address.
AnswerText(t) ==
    CASE t = "CNAME" -> "CNAME:www.example.com."
      [] t = "MX" -> "MX:10 mail.example.com."
      [] t = "NS" -> "NS:ns1.example.com."
      [] t = "TXT" -> "TXT:v=spf1 -all"
      [] t = "SOA" -> "SOA:ns1.example.com. admin.example.com."
      [] OTHER -> t

\* parseAnswers: <<ips, records>>.
parseAnswers(answers) ==
    <<MapSeq(SelectSeq(answers, IsAddress), AddressText),
      MapSeq(SelectSeq(answers, IsNotAddress), AnswerText)>>

\* extractRecords: the text of one record of the authority or additional
\* section.
ExtractText(t) ==
    CASE t = "MX" -> "MX:10 mail.example.com."
      [] t = "NS" -> "NS:ns1.example.com."
      [] t = "TXT" -> "TXT:v=spf1 -all"
      [] t = "SOA" -> "SOA:ns1.example.com."
      [] OTHER -> t

extractRecords(rrs) == MapSeq(rrs, ExtractText)

\* Every order a Go map of these keys can be ranged over in.
Orderings(S) == {q \in [1..Cardinality(S) -> S] : Range(q) = S}

\* extractAuthoritativeNS: the slices it can return.  The names are keys of
\* a map (no duplicates), ranged over in any order; with no key the slice
\* is nil.
extractAuthoritativeNS(authority, additional) ==
    LET nsMap == {NSName(authority[i]) :
                      i \in {k \in DOMAIN authority : authority[k] = "NS"}}
                 \cup {"SOA:ns1.example.com." :
                      i \in {k \in DOMAIN authority : authority[k] = "SOA"}}
                 \cup {NSName(additional[i]) :
                      i \in {k \in DOMAIN additional : additional[k] = "NS"}}
    IN  IF nsMap = {} THEN {NilSlice}
        ELSE {Slice(q) : q \in Orderings(nsMap)}

\* A classification that counts only addresses as an answer.
ClassifyResponseAddressesOnly(r, resp) ==
    CASE resp.rcode = RcodeSuccess ->
           LET ips == parseAnswers(resp.answer)[1]
               records == parseAnswers(resp.answer)[2]
               r2 == [r EXCEPT !.ResolvedIPs = ips, !.Records = records]
           IN  IF Len(ips) > 0
               THEN [r2 EXCEPT !.Status = "success"]
               ELSE [r2 EXCEPT !.Status = "no_answer",
                               !.Error = "no records found"]
      [] resp.rcode = RcodeNameError ->
           [r EXCEPT !.Status = "nxdomain", !.Error = "domain does not exist"]
      [] resp.rcode = RcodeServerFailure ->
           [r EXCEPT !.Status = "servfail", !.Error = "server failure"]
      [] resp.rcode = RcodeRefused ->
           [r EXCEPT !.Status = "refused", !.Error = "query refused"]
      [] OTHER ->
           [r EXCEPT !.Status = "error", !.Error = "unexpected response code"]

\* ExecuteQuery, the switch on response.Rcode: the result after it.
ClassifyResponse(r, resp) ==
    CASE resp.rcode = RcodeSuccess ->
           IF Len(resp.answer) = 0
           THEN LET allRecords == resp.ns \o resp.extra
                IN  IF Len(allRecords) > 0
                    THEN [r EXCEPT !.Status = "no_answer",
                                   !.Records = extractRecords(allRecords),
                                   !.Error = "no A/AAAA records found"]
                    ELSE [r EXCEPT !.Status = "no_answer",
                                   !.Error = "no records found"]
           ELSE LET ips == parseAnswers(resp.answer)[1]
                    records == parseAnswers(resp.answer)[2]
                    r2 == [r EXCEPT !.ResolvedIPs = ips, !.Records = records]
                IN  IF Len(ips) > 0 \/ Len(records) > 0
                    THEN [r2 EXCEPT !.Status = "success"]
                    ELSE [r2 EXCEPT !.Status = "no_answer",
                              !.Error = "response contained no useful records"]
      [] resp.rcode = RcodeNameError ->
           [r EXCEPT !.Status = "nxdomain", !.Error = "domain does not exist"]
      [] resp.rcode = RcodeServerFailure ->
           [r EXCEPT !.Status = "servfail", !.Error = "server failure"]
      [] resp.rcode = RcodeRefused ->
           [r EXCEPT !.Status = "refused", !.Error = "query refused"]
      [] OTHER ->
           [r EXCEPT !.Status = "error", !.Error = "unexpected response code"]

\* ExecuteQuery, if err != nil: the result from the error of the loop.
ClassifyError(r, e) ==
    [r EXCEPT !.Error = e,
              !.Status = IF Contains(ErrChars(e), TimeoutChars)
                         THEN "timeout" ELSE "error"]

\* lookupAuthoritativeNS: the names of the NS records of the answer
\* section, else of the authority section, else of the additional section
\* (a nil slice when there is none).
NSLookupRecords(resp) ==
    LET fromAnswer == MapSeq(SelectSeq(resp.answer, IsNS), NSName)
        fromNs == MapSeq(SelectSeq(resp.ns, IsNS), NSName)
        fromExtra == MapSeq(SelectSeq(resp.extra, IsNS), NSName)
    IN  IF Len(fromAnswer) > 0 THEN Slice(fromAnswer)
        ELSE IF Len(fromNs) > 0 THEN Slice(fromNs)
        ELSE IF Len(fromExtra) > 0 THEN Slice(fromExtra)
        ELSE NilSlice

\* One entry of events: an exchange (of the main query or of the NS lookup)
\* with the error it returned ("": none), or a sleep.
Exchange(kind, e, srv, net, name) ==
    [kind |-> kind, err |-> e, server |-> srv, network |-> net, ms |-> 0,
     name |-> name]
Sleep(ms) ==
    [kind |-> "sleep", err |-> "", server |-> <<"", 0>>, network |-> "",
     ms |-> ms, name |-> <<>>]

\* The domains a spec is explored with: QuerySpec.Validate wants a dot in the
\* domain.
QueryDomains ==
    {<<"example", "com">>, <<"www", "example", "com">>,
     <<"www", "example", "com", "">>}

\* strings.TrimSuffix(domain, ".") followed by strings.Split(domain, ".").
TrimSuffixDot(labels) ==
    IF Len(labels) > 1 /\ labels[Len(labels)] = ""
    THEN SubSeq(labels, 1, Len(labels) - 1)
    ELSE labels

\* getBaseDomain: the domain itself with at most two labels, else its last
\* two labels.
getBaseDomain(domain) ==
    LET parts == TrimSuffixDot(domain)
    IN  IF Len(parts) <= 2 THEN parts
        ELSE SubSeq(parts, Len(parts) - 1, Len(parts))

\* time.Since(startTime): every exchange and every sleep takes one unit.
Since(evs) == Len(evs)

\* A call of ExecuteQuery(spec, cfg) is about to start: every retry count
\* within the bound, every spec and every configuration that
\* Config.Validate accepts (at least one server configured).
InitQuery ==
    /\ cfgRetry \in 0..MaxRetry
    /\ cfgV4 \in {"", "8.8.8.8"}
    /\ cfgV6 \in {"", "2001:4860:4860::8888"}
    /\ ~(cfgV4 = "" /\ cfgV6 = "")
    /\ qIP \in {"ipv4", "ipv6"}
    /\ qTransport \in {"udp", "tcp"}
    /\ qDomain \in QueryDomains
    /\ qpc = "start"
    /\ attempt = 0
    /\ server = <<"", 0>>
    /\ network = ""
    /\ err = ""
    /\ response = NoResponse
    /\ res = NewResult
    /\ events = <<>>

\* No pool is modelled (the runs of one query).
PoolIdle ==
    /\ workerCount = 0
    /\ totalJobs = 0
    /\ jobs = <<>>
    /\ jobsClosed = FALSE
    /\ results = <<>>
    /\ resultsClosed = FALSE
    /\ wg = 0
    /\ wpc = <<>>
    /\ wspec = <<>>
    /\ startI = 1
    /\ mainPc = "idle"
    /\ subPc = "unstarted"
    /\ subI = 1
    /\ closerPc = "unstarted"
    /\ collected = <<>>
    /\ panicked = FALSE
    /\ hung = 0

\* ExecuteQuery up to the retry loop: the result is initialised, server and
\* network are chosen from the IP version and the transport of the spec,
\* the message and the client are built.
QueryStart ==
    /\ qpc = "start"
    /\ res' = NewResult
    /\ IF qIP = "ipv4"
       THEN /\ server' = <<cfgV4, DNSPort>>
            /\ network' = IF qTransport = "udp" THEN "udp" ELSE "tcp"
       ELSE /\ server' = <<cfgV6, DNSPort>>
            /\ network' = IF qTransport = "udp" THEN "udp6" ELSE "tcp6"
    /\ attempt' = 0
    /\ qpc' = "exchange"
    /\ UNCHANGED <<cfgRetry, cfgV4, cfgV6, qIP, qTransport, qDomain, err, response, events>>
    /\ UNCHANGED nonQueryVars

\* A retry loop that keeps the error of its first failed attempt.
QueryExchangeKeepsFirstError ==
    /\ qpc = "exchange"
    /\ attempt <= cfgRetry
    /\ \E e \in ErrMessages \cup {""} :
         \E resp \in IF e = "" THEN Responses ELSE {NoResponse} :
            /\ err' = IF e # "" /\ err # "" THEN err ELSE e
            /\ response' = resp
            /\ events' = Append(events, Exchange("main", e, server, network, qDomain))
            /\ qpc' = IF e = "" THEN "classify"
                      ELSE IF attempt = cfgRetry THEN "classify"
                      ELSE "sleep"
    /\ UNCHANGED <<cfgRetry, cfgV4, cfgV6, qIP, qTransport, qDomain, attempt, server,
                   network, res>>
    /\ UNCHANGED nonQueryVars

\* A retry loop that makes one attempt too many.
QueryExchangeOneMore ==
    /\ qpc = "exchange"
    /\ attempt <= cfgRetry + 1
    /\ \E e \in ErrMessages \cup {""} :
         \E resp \in IF e = "" THEN Responses ELSE {NoResponse} :
            /\ err' = e
            /\ response' = resp
            /\ events' = Append(events, Exchange("main", e, server, network, qDomain))
            /\ qpc' = IF e = "" THEN "classify"
                      ELSE IF attempt = cfgRetry + 1 THEN "classify"
                      ELSE "sleep"
    /\ UNCHANGED <<cfgRetry, cfgV4, cfgV6, qIP, qTransport, qDomain, attempt, server,
                   network, res>>
    /\ UNCHANGED nonQueryVars

\* The retry loop, one iteration up to its breaks: client.Exchange(msg,
\* server) fails with some error or returns some response.
QueryExchange ==
    /\ qpc = "exchange"
    /\ attempt <= cfgRetry
    /\ \E e \in ErrMessages \cup {""} :
         \E resp \in IF e = "" THEN Responses ELSE {NoResponse} :
            /\ err' = e
            /\ response' = resp
            /\ events' = Append(events, Exchange("main", e, server, network, qDomain))
            /\ qpc' = IF e = "" THEN "classify"
                      ELSE IF attempt = cfgRetry THEN "classify"
                      ELSE "sleep"
    /\ UNCHANGED <<cfgRetry, cfgV4, cfgV6, qIP, qTransport, qDomain, attempt, server,
                   network, res>>
    /\ UNCHANGED nonQueryVars

\* The retry loop: time.Sleep(100 * time.Millisecond); attempt++.
QuerySleep ==
    /\ qpc = "sleep"
    /\ events' = Append(events, Sleep(RetryDelayMs))
    /\ attempt' = attempt + 1
    /\ qpc' = "exchange"
    /\ UNCHANGED <<cfgRetry, cfgV4, cfgV6, qIP, qTransport, qDomain, server, network,
                   err, response, res>>
    /\ UNCHANGED nonQueryVars

\* ExecuteQuery after the loop: the error return, or the response code,
\* the NS records of the response, the status, and the decision to look the
\* nameservers up.
QueryClassify ==
    /\ qpc = "classify"
    /\ IF err # ""
       THEN /\ res' = ClassifyError(
                        [res EXCEPT !.LatencyMs = Since(events)], err)
            /\ qpc' = "done"
       ELSE \E auth \in extractAuthoritativeNS(response.ns, response.extra) :
            /\ res' = ClassifyResponse(
                        [res EXCEPT !.LatencyMs = Since(events),
                                    !.ResponseCode = response.rcode,
                                    !.AuthoritativeNS = auth],
                        response)
            /\ qpc' = IF Len(auth.elems) = 0 THEN "nsLookup" ELSE "done"
    /\ UNCHANGED <<cfgRetry, cfgV4, cfgV6, qIP, qTransport, qDomain, attempt, server,
                   network, err, response, events>>
    /\ UNCHANGED nonQueryVars

\* A nameserver lookup that is tried again after a failed exchange.
QueryNSLookupRetries ==
    /\ qpc = "nsLookup"
    /\ \E e \in ErrMessages \cup {""} :
         \E resp \in IF e = "" THEN NSLookupResponses ELSE {NoResponse} :
            LET found == IF e # "" THEN Slice(<<>>) ELSE NSLookupRecords(resp)
            IN  /\ events' = Append(events,
                        Exchange("ns", e, <<cfgV4, DNSPort>>, "udp",
                                 getBaseDomain(qDomain)))
                /\ res' = [res EXCEPT !.AuthoritativeNS =
                              IF found.isNil THEN Slice(<<>>) ELSE found]
                /\ qpc' = IF e # "" THEN "nsLookup" ELSE "done"
    /\ UNCHANGED <<cfgRetry, cfgV4, cfgV6, qIP, qTransport, qDomain, attempt,
                   server, network, err, response>>
    /\ UNCHANGED nonQueryVars

\* A nameserver lookup whose result is stored as it comes, nil or not.
QueryNSLookupNoNilGuard ==
    /\ qpc = "nsLookup"
    /\ \E e \in ErrMessages \cup {""} :
         \E resp \in IF e = "" THEN NSLookupResponses ELSE {NoResponse} :
            LET found == IF e # "" THEN Slice(<<>>) ELSE NSLookupRecords(resp)
            IN  /\ events' = Append(events,
                        Exchange("ns", e, <<cfgV4, DNSPort>>, "udp",
                                 getBaseDomain(qDomain)))
                /\ res' = [res EXCEPT !.AuthoritativeNS = found]
    /\ qpc' = "done"
    /\ UNCHANGED <<cfgRetry, cfgV4, cfgV6, qIP, qTransport, qDomain, attempt,
                   server, network, err, response>>
    /\ UNCHANGED nonQueryVars

\* A nameserver lookup whose failure becomes the status of the query.
QueryNSLookupEscalates ==
    /\ qpc = "nsLookup"
    /\ \E e \in ErrMessages \cup {""} :
         \E resp \in IF e = "" THEN NSLookupResponses ELSE {NoResponse} :
            LET found == IF e # "" THEN Slice(<<>>) ELSE NSLookupRecords(resp)
                r2 == [res EXCEPT !.AuthoritativeNS =
                              IF found.isNil THEN Slice(<<>>) ELSE found]
            IN  /\ events' = Append(events,
                        Exchange("ns", e, <<cfgV4, DNSPort>>, "udp",
                                 getBaseDomain(qDomain)))
                /\ res' = IF e # "" THEN ClassifyError(r2, e) ELSE r2
    /\ qpc' = "done"
    /\ UNCHANGED <<cfgRetry, cfgV4, cfgV6, qIP, qTransport, qDomain, attempt,
                   server, network, err, response>>
    /\ UNCHANGED nonQueryVars

\* lookupAuthoritativeNS(spec.Domain, cfg): one exchange over UDP with the
\* IPv4 server; then the guard against a nil slice, and the return.
QueryNSLookup ==
    /\ qpc = "nsLookup"
    /\ \E e \in ErrMessages \cup {""} :
         \E resp \in IF e = "" THEN NSLookupResponses ELSE {NoResponse} :
            LET found == IF e # "" THEN Slice(<<>>) ELSE NSLookupRecords(resp)
            IN  /\ events' = Append(events,
                        Exchange("ns", e, <<cfgV4, DNSPort>>, "udp",
                                 getBaseDomain(qDomain)))
                /\ res' = [res EXCEPT !.AuthoritativeNS =
                              IF found.isNil THEN Slice(<<>>) ELSE found]
    /\ qpc' = "done"
    /\ UNCHANGED <<cfgRetry, cfgV4, cfgV6, qIP, qTransport, qDomain, attempt, server,
                   network, err, response>>
    /\ UNCHANGED nonQueryVars

NextQuery ==
    \/ QueryStart
    \/ QueryExchange
    \/ QuerySleep
    \/ QueryClassify
    \/ QueryNSLookup

InitQuerySpec == PoolIdle /\ InitQuery /\ CodecIdle /\ ToolIdle

\* One call of ExecuteQuery, whatever the network answers.
SpecQuery == InitQuerySpec /\ [][NextQuery]_vars

(***************************************************************************)
(* Properties of the worker pool.                                          *)
(***************************************************************************)

\* The caller's slice holds each submitted spec exactly once.
OneResultPerSpec ==
    /\ Len(collected) = totalJobs
    /\ \A i \in 1..totalJobs :
          Cardinality({k \in DOMAIN collected : collected[k] = i}) = 1

AllWorkersExited == \A w \in Workers : wpc[w] = "done"

\* The spec held by the worker whose query is blocked (0: no such worker).
HungSpec == IF hung \in Workers THEN wspec[hung] ELSE 0

\* C1: ExecuteWithProgress with N specs and W workers, 1 <= W <= N, under
\* fair scheduling with every query returning, eventually returns, and
\* whenever it has returned the result list holds each submitted spec
\* exactly once (no duplicate, no omission), in every interleaving.
C1_ExactlyNResults ==
    (workerCount >= 1 /\ workerCount <= totalJobs) =>
        /\ <>(mainPc = "returned")
        /\ [](mainPc = "returned" => OneResultPerSpec)

\* A run with two workers has returned all three results, out of
\* submission order.
C1_Witness ==
    /\ mainPc = "returned"
    /\ workerCount = 2
    /\ totalJobs = 3
    /\ OneResultPerSpec
    /\ collected[1] # 1

\* C2: the results channel is closed only after every worker has exited:
\* once it is closed all workers have passed wg.Done (so none holds a
\* computed, undelivered result), and no goroutine ever panicked on a send
\* to (or a second close of) the closed channel.
C2_CloseAfterWorkersExit ==
    /\ resultsClosed => AllWorkersExited
    /\ ~panicked

\* The channel has been closed, after two workers exited, while results
\* are still buffered in it.
C2_Witness ==
    /\ resultsClosed
    /\ workerCount = 2
    /\ AllWorkersExited
    /\ Len(results) > 0

\* C4: both queues hold at most 2*W elements in every reachable state, and
\* on a full queue the sender does not get past its send: the submitter
\* does not advance while the input queue is full, and a worker stays at
\* its send while the output queue is full (a step that fills the gap is a
\* step of another party that took an element out).
C4_BoundedQueues ==
    /\ [](Len(jobs) <= 2 * workerCount /\ Len(results) <= 2 * workerCount)
    /\ [][Len(jobs) = 2 * workerCount => subI' = subI]_vars
    /\ [][Len(results) = 2 * workerCount =>
            \A w \in Workers : wpc[w] = "send" => wpc'[w] = "send"]_vars

\* The submitter is blocked on a full input queue with a spec left to send.
C4_Witness ==
    /\ workerCount >= 1
    /\ Len(jobs) = 2 * workerCount
    /\ subPc = "submit"
    /\ subI <= totalJobs

\* C5: with W >= 2, once the query of one worker is blocked for ever, every
\* other submitted spec is still taken by another worker and its result
\* reaches the collector.
C5_HungWorkerDoesNotStall ==
    [](hung # 0 /\ workerCount >= 2 =>
         <>(\A i \in 1..totalJobs :
               i # HungSpec => i \in Range(collected)))

\* The query for the first spec is blocked, and the results of both later
\* specs have been collected.
C5_Witness ==
    /\ hung # 0
    /\ workerCount = 2
    /\ totalJobs = 3
    /\ HungSpec = 1
    /\ Range(collected) = {2, 3}

\* C3 (as claimed): Execute with W >= 1 workers eventually returns, with
\* one result per submitted spec.
C3_ExecuteReturns ==
    workerCount >= 1 => <>(mainPc = "returned" /\ OneResultPerSpec)

\* C6 (as claimed): once the consumer has stopped reading, every worker
\* and the submitter still finish.
C6_AbortLetsWorkersFinish ==
    [](mainPc = "stopped" /\ workerCount >= 1 =>
         <>(AllWorkersExited /\ subPc = "done"))

(***************************************************************************)
(* Properties of ExecuteQuery.                                             *)
(***************************************************************************)

IsMain(ev) == ev.kind = "main"

\* The exchanges of the main query, in order.
MainExchanges == SelectSeq(events, IsMain)

AllAttemptsFailed ==
    /\ MainExchanges # <<>>
    /\ \A i \in DOMAIN MainExchanges : MainExchanges[i].err # ""

C8_LastErrorDecides ==
    (qpc = "done" /\ AllAttemptsFailed) =>
        LET last == MainExchanges[Len(MainExchanges)].err
        IN  /\ res.Status = IF last = "i/o timeout" THEN "timeout" ELSE "error"
            /\ res.Error = last
            /\ res.Error # ""

\* Two attempts failed, the first by a timeout and the last one not: the
\* status is Error.
C8_Witness ==
    /\ qpc = "done"
    /\ Len(MainExchanges) = 2
    /\ MainExchanges[1].err = "i/o timeout"
    /\ MainExchanges[2].err = "connection refused"
    /\ res.Status = "error"

HasAddress(answers) == \E i \in DOMAIN answers : answers[i] \in {"A", "AAAA"}

ServerNotConfigured ==
    \/ qIP = "ipv4" /\ cfgV4 = ""
    \/ qIP = "ipv6" /\ cfgV6 = ""

\* C10 (as claimed): with no server configured for the IP family of the
\* spec, ExecuteQuery makes no exchange at all (no attempt, no retry, no NS
\* lookup) and returns status Error with a non-empty message.
C10_NoServerNoExchange ==
    (qpc # "idle" /\ ServerNotConfigured) =>
        /\ events = <<>>
        /\ qpc = "done" => (res.Status = "error" /\ res.Error # "")

\* The exchanges of the nameserver lookup, in the order they were made.
IsNSLookup(ev) == ev.kind = "ns"
NSExchanges == SelectSeq(events, IsNSLookup)

Statuses ==
    {"success", "no_answer", "nxdomain", "servfail", "refused", "timeout",
     "error"}

\* The positions of ExecuteQuery a step may lead to from each position.
StageSuccessors(pc) ==
    CASE pc = "start" -> {"exchange"}
      [] pc = "exchange" -> {"sleep", "classify"}
      [] pc = "sleep" -> {"exchange"}
      [] pc = "classify" -> {"nsLookup", "done"}
      [] pc = "nsLookup" -> {"done"}
      [] OTHER -> {}

\* C11: a call of ExecuteQuery goes through build, the attempts, the
\* classification, at most one nameserver lookup, and the return, in this
\* order; there is at most one exchange of the nameserver lookup, it comes
\* after every exchange of the query itself and nothing follows it; the
\* status of the returned result is one of the seven statuses, and nothing
\* changes after the return.
C11_StagesInOrder ==
    /\ [](/\ Len(NSExchanges) <= 1
          /\ Len(MainExchanges) <= cfgRetry + 1
          /\ (Len(NSExchanges) = 1 =>
                 /\ qpc = "done"
                 /\ events[Len(events)].kind = "ns"
                 /\ Len(MainExchanges) >= 1)
          /\ (qpc \in {"classify", "nsLookup", "done"} =>
                 Len(MainExchanges) >= 1)
          /\ (qpc = "done" => res.Status \in Statuses))
    /\ [][/\ qpc # "done"
          /\ qpc' \in StageSuccessors(qpc)]_vars

\* A call returned after two attempts and a nameserver lookup that failed.
C11_Witness ==
    /\ qpc = "done"
    /\ Len(MainExchanges) = 2
    /\ Len(NSExchanges) = 1
    /\ NSExchanges[1].err # ""

\* C12: whenever ExecuteQuery has returned, AuthoritativeNS of the result
\* is a slice that is not nil (it may be empty): after failed attempts,
\* after every response code, with NS records in the response or without,
\* after a nameserver lookup that found names, failed, or found nothing.
C12_AuthoritativeNSNeverNil ==
    qpc = "done" => ~res.AuthoritativeNS.isNil

\* The response had no nameserver and the lookup was answered without one:
\* the result has the empty list.
C12_Witness ==
    /\ qpc = "done"
    /\ err = ""
    /\ Len(NSExchanges) = 1
    /\ NSExchanges[1].err = ""
    /\ res.AuthoritativeNS = Slice(<<>>)

\* A record of type NS in the authority or the additional section.
HasNSRecord(resp) ==
    \/ \E i \in DOMAIN resp.ns : resp.ns[i] = "NS"
    \/ \E i \in DOMAIN resp.extra : resp.extra[i] = "NS"

\* The last two labels of a domain name (a trailing dot ends the name and
\* is no label).
IsLabel(l) == l # ""
LastTwoLabels(domain) ==
    LET labels == SelectSeq(domain, IsLabel)
    IN  SubSeq(labels, Len(labels) - 1, Len(labels))

\* C13 (as claimed): after an exchange without error the nameserver lookup
\* is made exactly when neither the authority nor the additional section of
\* the response holds a record of type NS (an SOA record does not count),
\* and it goes over UDP to the IPv4 server for the last two labels of the
\* domain.
C13_FallbackIffNoNSRecord ==
    (qpc = "done" /\ err = "") =>
        /\ (Len(NSExchanges) = 1) <=> ~HasNSRecord(response)
        /\ \A i \in DOMAIN NSExchanges :
              /\ NSExchanges[i].network = "udp"
              /\ NSExchanges[i].server = <<cfgV4, DNSPort>>
              /\ NSExchanges[i].name = LastTwoLabels(qDomain)

\* C14: the step of the nameserver lookup, whatever its exchange returns,
\* leaves Status, Error, ResponseCode, ResolvedIPs, Records and LatencyMs of
\* the result as the classification set them.
C14_FallbackChangesOnlyNS ==
    [][qpc = "nsLookup" =>
          res' = [res EXCEPT !.AuthoritativeNS = res'.AuthoritativeNS]]_vars

\* A successful query whose nameserver lookup timed out.
C14_Witness ==
    /\ qpc = "done"
    /\ res.Status = "success"
    /\ res.Error = ""
    /\ Len(NSExchanges) = 1
    /\ NSExchanges[1].err = "i/o timeout"

(***************************************************************************)
(* The wire codec (query/builder.go): BuildDNSQuery.  A domain string is   *)
(* given by the pieces its dots cut it into (what strings.Split(domain,    *)
(* ".") returns): "a.b" is <<"a", "b">>, "a." is <<"a", "">>, "" is <<"">>;*)
(* each piece is a sequence of bytes.                                      *)
(***************************************************************************)

MaxLabels == 3

\* QueryType of spec.go, by wire value.
QueryTypeA == 1
QueryTypeNS == 2
QueryTypeCNAME == 5
QueryTypeSOA == 6
QueryTypePTR == 12
QueryTypeMX == 15
QueryTypeTXT == 16
QueryTypeAAAA == 28
QueryTypeSRV == 33
QueryTypeANY == 255

ClassIN == 1

\* The flags of a query: standard query, recursion desired (0x0100).
QueryFlags == 256

\* A piece of n bytes, all the letter "a".
Piece(n) == [i \in 1..n |-> 97]

\* The lengths a piece is explored with, around the limit of 63.
PieceLens == {0, 1, 2, 63, 64, 65}

\* The domains BuildDNSQuery is explored with.
BuildDomains ==
    UNION {[1..n -> {Piece(k) : k \in PieceLens}] : n \in 1..MaxLabels}

\* The empty string.
EmptyString == <<<<>>>>

\* binary.BigEndian.PutUint16
PutUint16(v) == <<(v \div 256) % 256, v % 256>>

\* strings.TrimSuffix(domain, "."): a string ends with a dot when its last
\* piece is empty and is not its only piece.
TrimSuffix(domain) ==
    IF Len(domain) > 1 /\ domain[Len(domain)] = <<>>
    THEN SubSeq(domain, 1, Len(domain) - 1)
    ELSE domain

RECURSIVE EncodeLabels(_)
\* encodeDomainName, the copy loop: each label after its length byte.
EncodeLabels(labels) ==
    IF labels = <<>> THEN <<>>
    ELSE <<Len(Head(labels))>> \o Head(labels) \o EncodeLabels(Tail(labels))

\* An encodeDomainName that lets a label of 64 bytes through.
encodeDomainNameOffByOne(domain) ==
    LET labels == TrimSuffix(domain)
        bad == {i \in DOMAIN labels :
                   Len(labels[i]) = 0 \/ Len(labels[i]) > 64}
        first == CHOOSE i \in bad : \A k \in bad : i <= k
    IN  IF bad # {}
        THEN [bytes |-> NilSlice,
              err |-> IF Len(labels[first]) = 0
                      THEN "domain has empty label"
                      ELSE "domain label exceeds 63 characters"]
        ELSE [bytes |-> Slice(EncodeLabels(labels) \o <<0>>), err |-> ""]

\* encodeDomainName: <<bytes, err>>.
encodeDomainName(domain) ==
    LET labels == TrimSuffix(domain)
        bad == {i \in DOMAIN labels :
                   Len(labels[i]) = 0 \/ Len(labels[i]) > 63}
        first == CHOOSE i \in bad : \A k \in bad : i <= k
    IN  IF bad # {}
        THEN [bytes |-> NilSlice,
              err |-> IF Len(labels[first]) = 0
                      THEN "domain has empty label"
                      ELSE "domain label exceeds 63 characters"]
        ELSE [bytes |-> Slice(EncodeLabels(labels) \o <<0>>), err |-> ""]

\* A header without the recursion-desired flag.
buildDNSHeaderNoFlags(txID, questionCount) ==
    PutUint16(txID) \o PutUint16(0) \o PutUint16(questionCount)
        \o PutUint16(0) \o PutUint16(0) \o PutUint16(0)

buildDNSHeader(txID, questionCount) ==
    PutUint16(txID) \o PutUint16(QueryFlags) \o PutUint16(questionCount)
        \o PutUint16(0) \o PutUint16(0) \o PutUint16(0)

buildDNSQuestion(domain, queryType, class) ==
    LET enc == encodeDomainName(domain)
    IN  IF enc.err # "" THEN [bytes |-> NilSlice, err |-> enc.err]
        ELSE [bytes |-> Slice(enc.bytes.elems \o PutUint16(queryType)
                                  \o PutUint16(class)),
              err |-> ""]

\* BuildDNSQuery with the transaction id rand.Intn drew: <<packet, err>>.
BuildDNSQuery(domain, queryType, txID) ==
    IF domain = EmptyString
    THEN [packet |-> NilSlice, err |-> "domain cannot be empty"]
    ELSE LET header == buildDNSHeader(txID, 1)
             question == buildDNSQuestion(domain, queryType % 65536, ClassIN)
         IN  IF question.err # ""
             THEN [packet |-> NilSlice, err |-> question.err]
             ELSE [packet |-> Slice(header \o question.bytes.elems),
                   err |-> ""]

\* A call of BuildDNSQuery is about to start.
InitBuild ==
    /\ build \in [pc : {"call"}, domain : BuildDomains,
                  queryType : {QueryTypeA, QueryTypeANY},
                  txID : {0, 65535},
                  packet : {NilSlice}, err : {""}]
    /\ ParseIdle /\ ReadNameIdle /\ TCPIdle

\* The call returns.
BuildReturns ==
    /\ build.pc = "call"
    /\ LET r == BuildDNSQuery(build.domain, build.queryType, build.txID)
       IN  build' = [build EXCEPT !.pc = "returned", !.packet = r.packet,
                                  !.err = r.err]
    /\ UNCHANGED <<parse, rd, tcp>>
    /\ UNCHANGED nonCodecVars

InitBuildSpec == PoolIdle /\ QueryIdle /\ ToolIdle /\ InitBuild

SpecBuild == InitBuildSpec /\ [][BuildReturns]_vars

\* A domain without the one dot it may end with.
WithoutTrailingDot(domain) ==
    IF Len(domain) >= 2 /\ Len(domain[Len(domain)]) = 0
    THEN [i \in 1..(Len(domain) - 1) |-> domain[i]]
    ELSE domain

\* The sum of the lengths of the labels, each with its length byte.
RECURSIVE WireLength(_)
WireLength(labels) ==
    IF labels = <<>> THEN 0
    ELSE 1 + Len(Head(labels)) + WireLength(Tail(labels))

\* C15: BuildDNSQuery returns an error and a nil packet exactly when the
\* domain is empty or, without its one trailing dot, has an empty label or
\* a label of more than 63 bytes; otherwise it returns no error and a packet
\* of the header, the labels with their length bytes, the closing zero, the
\* type and the class.
C15_BuildFailsIffBadLabel ==
    build.pc = "returned" =>
        LET labels == WithoutTrailingDot(build.domain)
            invalid == \/ build.domain = <<<<>>>>
                       \/ \E i \in DOMAIN labels :
                             Len(labels[i]) = 0 \/ Len(labels[i]) > 63
        IN  IF invalid
            THEN build.err # "" /\ build.packet.isNil
            ELSE /\ build.err = ""
                 /\ ~build.packet.isNil
                 /\ Len(build.packet.elems) = 12 + WireLength(labels) + 1 + 4

\* A domain with a label of 63 bytes was encoded, its length byte in place.
C15_Witness ==
    /\ build.pc = "returned"
    /\ build.err = ""
    /\ Len(build.domain) = 2
    /\ Len(build.domain[1]) = 63
    /\ build.packet.elems[13] = 63

(***************************************************************************)
(* The wire codec: readDomainName, one iteration of its loop at a time.    *)
(* A packet is a sequence of bytes; Go counts its offsets from 0.          *)
(***************************************************************************)

MaxNameLen == 4
MaxChain == 12

\* maxJumps of readDomainName.
maxJumps == 10

\* data[i]
At(data, i) == data[i + 1]

\* data[from:to]
Sub(data, from, to) == SubSeq(data, from + 1, to)

\* binary.BigEndian.Uint16(data[i : i+2])
Uint16(data, i) == At(data, i) * 256 + At(data, i + 1)

\* Every packet of up to MaxNameLen bytes that are an end of name, a label
\* length, or the first byte of a pointer.
SmallPackets ==
    UNION {[1..n -> {0, 1, 2, 192}] : n \in 0..MaxNameLen}

\* n pointers, each to the next one, before the end of the name.
RECURSIVE PointerChain(_, _)
PointerChain(i, n) ==
    IF i = n THEN <<0>>
    ELSE <<192, 2 * (i + 1)>> \o PointerChain(i + 1, n)

ChainPackets == {PointerChain(0, n) : n \in 1..MaxChain}

\* The locals of readDomainName when its loop is entered.
ReadNameStart(data, offset) ==
    [pc |-> "loop", data |-> data, offset |-> offset, visited |-> {},
     jumps |-> 0, parts |-> <<>>, err |-> "", trail |-> <<>>]

ReadNameFails(st, msg) ==
    [st EXCEPT !.pc = "returned", !.parts = <<>>, !.err = msg]

\* One iteration that does not look at the visited offsets.
ReadNameIterNoVisited(st) ==
    LET data == st.data
        offset == st.offset
    IN  IF offset >= Len(data)
        THEN ReadNameFails(st, "domain name extends beyond packet")
        ELSE
        LET length == At(data, offset)
            seen == [st EXCEPT !.visited = @ \cup {offset}]
        IN  IF length >= 192
            THEN IF offset + 1 >= Len(data)
                 THEN ReadNameFails(
                        [seen EXCEPT !.trail = Append(@,
                            [offset |-> offset, followed |-> FALSE])],
                        "truncated compression pointer")
                 ELSE LET pointer == (length % 64) * 256 + At(data, offset + 1)
                          jumped == [seen EXCEPT !.jumps = @ + 1]
                      IN  IF jumped.jumps > maxJumps
                          THEN ReadNameFails(
                                 [jumped EXCEPT !.trail = Append(@,
                                     [offset |-> offset, followed |-> FALSE])],
                                 "too many compression pointer jumps")
                          ELSE [jumped EXCEPT !.offset = pointer,
                                   !.trail = Append(@,
                                     [offset |-> offset, followed |-> TRUE])]
            ELSE LET walked == [seen EXCEPT !.trail = Append(@,
                                   [offset |-> offset, followed |-> FALSE])]
                 IN  IF length = 0
                     THEN [walked EXCEPT !.pc = "returned"]
                     ELSE IF offset + 1 + length > Len(data)
                     THEN ReadNameFails(walked, "label extends beyond packet")
                     ELSE [walked EXCEPT
                              !.parts = Append(@, Sub(data, offset + 1,
                                                      offset + 1 + length)),
                              !.offset = offset + 1 + length]

\* One iteration of the loop of readDomainName; trail notes the offset the
\* iteration worked on and whether it followed a pointer from there.
ReadNameIter(st) ==
    LET data == st.data
        offset == st.offset
    IN  IF offset >= Len(data)
        THEN ReadNameFails(st, "domain name extends beyond packet")
        ELSE IF offset \in st.visited
        THEN ReadNameFails(st, "circular reference in domain name")
        ELSE
        LET length == At(data, offset)
            seen == [st EXCEPT !.visited = @ \cup {offset}]
        IN  IF length >= 192
            THEN IF offset + 1 >= Len(data)
                 THEN ReadNameFails(
                        [seen EXCEPT !.trail = Append(@,
                            [offset |-> offset, followed |-> FALSE])],
                        "truncated compression pointer")
                 ELSE LET pointer == (length % 64) * 256 + At(data, offset + 1)
                          jumped == [seen EXCEPT !.jumps = @ + 1]
                      IN  IF jumped.jumps > maxJumps
                          THEN ReadNameFails(
                                 [jumped EXCEPT !.trail = Append(@,
                                     [offset |-> offset, followed |-> FALSE])],
                                 "too many compression pointer jumps")
                          ELSE [jumped EXCEPT !.offset = pointer,
                                   !.trail = Append(@,
                                     [offset |-> offset, followed |-> TRUE])]
            ELSE LET walked == [seen EXCEPT !.trail = Append(@,
                                   [offset |-> offset, followed |-> FALSE])]
                 IN  IF length = 0
                     THEN [walked EXCEPT !.pc = "returned"]
                     ELSE IF offset + 1 + length > Len(data)
                     THEN ReadNameFails(walked, "label extends beyond packet")
                     ELSE [walked EXCEPT
                              !.parts = Append(@, Sub(data, offset + 1,
                                                      offset + 1 + length)),
                              !.offset = offset + 1 + length]

\* readDomainName as parseRecord calls it: the loop run to its return.  The
\* name is the sequence of its labels (none: the root, ".").
RECURSIVE ReadNameRun(_)
ReadNameRun(st) ==
    IF st.pc = "returned" THEN st ELSE ReadNameRun(ReadNameIter(st))

readDomainName(data, offset) ==
    LET st == ReadNameRun(ReadNameStart(data, offset))
    IN  [name |-> st.parts, err |-> st.err]

\* A call of readDomainName is about to start, for a packet and any offset
\* into it or just behind it.
InitReadName ==
    /\ \E data \in SmallPackets \cup ChainPackets :
         \E offset \in 0..Len(data) :
            rd = ReadNameStart(data, offset)
    /\ BuildIdle /\ ParseIdle /\ TCPIdle

ReadNameStep ==
    /\ rd.pc = "loop"
    /\ rd' = ReadNameIter(rd)
    /\ UNCHANGED <<build, parse, tcp>>
    /\ UNCHANGED nonCodecVars

InitReadNameSpec == PoolIdle /\ QueryIdle /\ ToolIdle /\ InitReadName

SpecReadName == InitReadNameSpec /\ [][ReadNameStep]_vars

\* The loop is one goroutine's: it keeps running.
FairSpecReadName == SpecReadName /\ WF_vars(ReadNameStep)

\* The pointers followed so far.
WasFollowed(t) == t.followed
PointersFollowed == Len(SelectSeq(rd.trail, WasFollowed))

\* A pointer at the start offset that points to itself.
SelfPointer ==
    /\ rd.trail # <<>>
    /\ rd.trail[1].offset + 1 < Len(rd.data)
    /\ At(rd.data, rd.trail[1].offset) = 192
    /\ At(rd.data, rd.trail[1].offset + 1) = rd.trail[1].offset

\* C17: readDomainName returns for every packet and every start offset; it
\* follows at most 10 pointers and works on no offset twice; a pointer to
\* itself, and any walk that comes back to an offset, ends in an error
\* return.
C17_ReadNameTerminates ==
    /\ [](/\ PointersFollowed <= 10
          /\ \A i, j \in DOMAIN rd.trail :
                i # j => rd.trail[i].offset # rd.trail[j].offset
          /\ (rd.pc = "returned" /\ SelfPointer => rd.err # "")
          /\ (rd.pc = "returned" /\ rd.offset \in rd.visited
                 /\ At(rd.data, rd.offset) # 0 => rd.err # ""))
    /\ <>(rd.pc = "returned")

\* A pointer to itself was refused as a circular reference.
C17_Witness ==
    /\ rd.pc = "returned"
    /\ SelfPointer
    /\ rd.err = "circular reference in domain name"

(***************************************************************************)
(* The wire codec: ParseDNSResponse, parseRecord, skipDomainName.  The     *)
(* string parseRecord returns is kept as its pieces: the type name, the    *)
(* numbers and the names or texts that fmt.Sprintf puts together.          *)
(***************************************************************************)

MaxRecords == 3

\* The string of a record: "" when parseRecord has nothing to return.
Rec(type, nums, parts) == [type |-> type, nums |-> nums, parts |-> parts]
NoRecord == Rec("", <<>>, <<>>)

\* QueryType.String() for the types parseRecord prints by name.
TypeName(recordType) ==
    CASE recordType = QueryTypeCNAME -> "CNAME"
      [] recordType = QueryTypePTR -> "PTR"
      [] recordType = QueryTypeNS -> "NS"
      [] OTHER -> "UNKNOWN"

RECURSIVE skipDomainName(_, _)
\* skipDomainName: <<offset behind the name, err>>.
skipDomainName(data, offset) ==
    IF offset >= Len(data)
    THEN [offset |-> 0, err |-> "domain name extends beyond packet"]
    ELSE LET length == At(data, offset)
         IN  IF length >= 192 THEN [offset |-> offset + 2, err |-> ""]
             ELSE IF length = 0 THEN [offset |-> offset + 1, err |-> ""]
             ELSE skipDomainName(data, offset + 1 + length)

RECURSIVE TxtParts(_, _, _, _)
\* parseRecord, TXT: the length-prefixed strings up to endOffset.
TxtParts(data, txtOffset, endOffset, parts) ==
    IF txtOffset >= endOffset THEN parts
    ELSE LET strLen == At(data, txtOffset)
         IN  IF txtOffset + 1 + strLen > endOffset THEN parts
             ELSE TxtParts(data, txtOffset + 1 + strLen, endOffset,
                           Append(parts, Sub(data, txtOffset + 1,
                                             txtOffset + 1 + strLen)))

\* parseRecord
parseRecord(data, offset, recordType, rdLength) ==
    CASE recordType = QueryTypeA ->
           IF rdLength = 4
           THEN Rec("A", Sub(data, offset, offset + 4), <<>>)
           ELSE NoRecord
      [] recordType = QueryTypeAAAA ->
           IF rdLength = 16
           THEN Rec("AAAA", [i \in 1..8 |-> Uint16(data, offset + 2 * (i - 1))],
                    <<>>)
           ELSE NoRecord
      [] recordType \in {QueryTypeCNAME, QueryTypePTR, QueryTypeNS} ->
           LET n == readDomainName(data, offset)
           IN  IF n.err = "" THEN Rec(TypeName(recordType), <<>>, n.name)
               ELSE NoRecord
      [] recordType = QueryTypeMX ->
           IF rdLength >= 4
           THEN LET priority == Uint16(data, offset)
                    n == readDomainName(data, offset + 2)
                IN  IF n.err = "" THEN Rec("MX", <<priority>>, n.name)
                    ELSE NoRecord
           ELSE NoRecord
      [] recordType = QueryTypeTXT ->
           LET parts == TxtParts(data, offset, offset + rdLength, <<>>)
           IN  IF Len(parts) > 0 THEN Rec("TXT", <<>>, parts) ELSE NoRecord
      [] recordType = QueryTypeSOA ->
           LET n == readDomainName(data, offset)
           IN  IF n.err = "" THEN Rec("SOA", <<>>, n.name) ELSE NoRecord
      [] recordType = QueryTypeSRV ->
           IF rdLength >= 8
           THEN LET n == readDomainName(data, offset + 6)
                IN  IF n.err = ""
                    THEN Rec("SRV", <<Uint16(data, offset),
                                      Uint16(data, offset + 2),
                                      Uint16(data, offset + 4)>>, n.name)
                    ELSE NoRecord
           ELSE NoRecord
      [] OTHER -> NoRecord

RECURSIVE SkipQuestions(_, _, _)
\* ParseDNSResponse, the loop over the question section.
SkipQuestions(resp, offset, count) ==
    IF count = 0 THEN [offset |-> offset, err |-> ""]
    ELSE LET sk == skipDomainName(resp, offset)
         IN  IF sk.err # "" THEN sk
             ELSE SkipQuestions(resp, sk.offset + 4, count - 1)

RECURSIVE ParseRecordsStopAtBad(_, _, _, _)
\* A walk that ends at the first record parseRecord returns nothing for.
ParseRecordsStopAtBad(resp, offset, count, answers) ==
    IF count = 0 \/ offset >= Len(resp) THEN answers
    ELSE LET sk == skipDomainName(resp, offset)
         IN  IF sk.err # "" \/ sk.offset + 10 > Len(resp) THEN answers
             ELSE LET recordType == Uint16(resp, sk.offset)
                      rdLength == Uint16(resp, sk.offset + 8)
                      rdata == sk.offset + 10
                  IN  IF rdata + rdLength > Len(resp) THEN answers
                      ELSE LET record == parseRecord(resp, rdata,
                                                     recordType, rdLength)
                           IN  IF record = NoRecord THEN answers
                               ELSE ParseRecordsStopAtBad(resp,
                                        rdata + rdLength, count - 1,
                                        Append(answers, record))

RECURSIVE ParseRecords(_, _, _, _)
\* ParseDNSResponse, the loop over the records of all sections.
ParseRecords(resp, offset, count, answers) ==
    IF count = 0 \/ offset >= Len(resp) THEN answers
    ELSE LET sk == skipDomainName(resp, offset)
         IN  IF sk.err # "" \/ sk.offset + 10 > Len(resp) THEN answers
             ELSE LET recordType == Uint16(resp, sk.offset)
                      rdLength == Uint16(resp, sk.offset + 8)
                      rdata == sk.offset + 10
                  IN  IF rdata + rdLength > Len(resp) THEN answers
                      ELSE LET record == parseRecord(resp, rdata,
                                                     recordType, rdLength)
                           IN  ParseRecords(resp, rdata + rdLength,
                                   count - 1,
                                   IF record # NoRecord
                                   THEN Append(answers, record)
                                   ELSE answers)

\* ParseDNSResponse below the check of the response code.
ParseBody(resp, rcode) ==
    LET questionCount == Uint16(resp, 4)
        totalRecords == Uint16(resp, 6) + Uint16(resp, 8)
                            + Uint16(resp, 10)
        q == SkipQuestions(resp, 12, questionCount)
    IN  IF q.err # ""
        THEN [rcode |-> rcode, answers |-> NilSlice, err |-> q.err]
        ELSE [rcode |-> rcode,
              answers |-> Slice(ParseRecords(resp, q.offset,
                                             totalRecords, <<>>)),
              err |-> ""]

\* A decoder that walks the records whatever the response code is.
ParseDNSResponseAnyRcode(resp) ==
    IF Len(resp) < 12
    THEN [rcode |-> 0, answers |-> NilSlice, err |-> "response too short"]
    ELSE ParseBody(resp, Uint16(resp, 2) % 16)

IsAddressRecord(rec) == rec.type \in {"A", "AAAA"}
IsCNAMERecord(rec) == rec.type = "CNAME"
IsOtherRecord(rec) == ~IsAddressRecord(rec) /\ ~IsCNAMERecord(rec)

\* The decoder of the revision before (builder.go, lines 621 to 723): the
\* CNAME records first, then the addresses, the other records only when
\* there is no address.
ParseDNSResponseGrouped(resp) ==
    IF Len(resp) < 12
    THEN [rcode |-> 0, answers |-> NilSlice, err |-> "response too short"]
    ELSE LET rcode == Uint16(resp, 2) % 16
         IN  IF rcode # 0
             THEN [rcode |-> rcode, answers |-> Slice(<<>>), err |-> ""]
             ELSE LET b == ParseBody(resp, rcode)
                      ips == SelectSeq(b.answers.elems, IsAddressRecord)
                      cnames == SelectSeq(b.answers.elems, IsCNAMERecord)
                      otherRecords == SelectSeq(b.answers.elems, IsOtherRecord)
                  IN  IF b.err # "" THEN b
                      ELSE [b EXCEPT !.answers =
                              Slice(cnames \o ips \o
                                    (IF Len(ips) = 0 THEN otherRecords
                                     ELSE <<>>))]

\* ParseDNSResponse: <<rcode, answers, err>>.
ParseDNSResponse(resp) ==
    IF Len(resp) < 12
    THEN [rcode |-> 0, answers |-> NilSlice, err |-> "response too short"]
    ELSE LET rcode == Uint16(resp, 2) % 16
         IN  IF rcode # 0
             THEN [rcode |-> rcode, answers |-> Slice(<<>>), err |-> ""]
             ELSE ParseBody(resp, rcode)

\* determineStatus of the executor that calls ParseDNSResponse.
determineStatus(rcode, ips) ==
    CASE rcode = 0 -> IF Len(ips) > 0 THEN "success" ELSE "no_answer"
      [] rcode = 3 -> "nxdomain"
      [] rcode = 2 -> "servfail"
      [] rcode = 5 -> "refused"
      [] OTHER -> "error"

(***************************************************************************)
(* The responses ParseDNSResponse is explored with, as a server puts them  *)
(* on the wire: the header, the question "a", and records whose owner name *)
(* is a pointer to the question (offset 12).                               *)
(***************************************************************************)

\* The records of a response: well-formed ones, an A record with 5 data
\* bytes, an AAAA record with 4, a record of a type parseRecord does not
\* know, and a CNAME record whose name is a pointer to itself.
RecordKinds == {"A", "A5", "AAAA", "AAAA4", "MX", "TXT", "T99", "CNAMEloop"}

WireType(kind) ==
    CASE kind \in {"A", "A5"} -> QueryTypeA
      [] kind \in {"AAAA", "AAAA4"} -> QueryTypeAAAA
      [] kind = "MX" -> QueryTypeMX
      [] kind = "TXT" -> QueryTypeTXT
      [] kind = "CNAMEloop" -> QueryTypeCNAME
      [] OTHER -> 99

\* The data of a record that is written at offset at.
Rdata(kind, at) ==
    CASE kind = "A" -> <<93, 184, 216, 34>>
      [] kind = "A5" -> <<1, 2, 3, 4, 5>>
      [] kind = "AAAA" -> [i \in 1..16 |-> i]
      [] kind = "AAAA4" -> <<1, 2, 3, 4>>
      [] kind = "MX" -> <<0, 10, 1, 109, 192, 12>>
      [] kind = "TXT" -> <<2, 104, 105>>
      [] kind = "CNAMEloop" -> <<192, at>>
      [] OTHER -> <<7, 7>>

WireRecord(kind, at) ==
    <<192, 12>> \o PutUint16(WireType(kind)) \o PutUint16(ClassIN)
        \o <<0, 0, 0, 60>> \o PutUint16(Len(Rdata(kind, at + 12)))
        \o Rdata(kind, at + 12)

RECURSIVE WireRecords(_, _)
WireRecords(kinds, at) ==
    IF kinds = <<>> THEN <<>>
    ELSE LET first == WireRecord(Head(kinds), at)
         IN  first \o WireRecords(Tail(kinds), at + Len(first))

\* The flags of a response: response, recursion desired and available
\* (0x8180), and the response code.
ResponseFlags(rcode) == 33152 + rcode

WireHeader(rcode, qd, an, ns, ar) ==
    PutUint16(4660) \o PutUint16(ResponseFlags(rcode)) \o PutUint16(qd)
        \o PutUint16(an) \o PutUint16(ns) \o PutUint16(ar)

WireQuestion == <<1, 97, 0>> \o PutUint16(QueryTypeA) \o PutUint16(ClassIN)

Min(a, b) == IF a < b THEN a ELSE b

\* The section counts of n records: all of them answers, or one answer, one
\* authority record and the rest additional.
SectionCounts(n, how) ==
    IF how = "answer" THEN <<n, 0, 0>>
    ELSE <<Min(1, n), Min(1, n - Min(1, n)), n - Min(1, n) - Min(1, n - Min(1, n))>>

WireResponse(rcode, kinds, how) ==
    LET c == SectionCounts(Len(kinds), how)
    IN  WireHeader(rcode, 1, c[1], c[2], c[3]) \o WireQuestion
            \o WireRecords(kinds, 12 + Len(WireQuestion))

KindSeqs == UNION {[1..n -> RecordKinds] : n \in 0..MaxRecords}

\* A call of ParseDNSResponse is about to start: with a response as a
\* server sends it, with a header whose counts promise more than the body
\* holds, or with less than a header.
InitParse ==
    /\ \/ \E rcode \in {0, 3}, kinds \in KindSeqs, how \in {"answer", "spread"} :
            parse = [pc |-> "call", kinds |-> kinds, how |-> how,
                     wellFormed |-> TRUE,
                     resp |-> WireResponse(rcode, kinds, how),
                     rcode |-> 0, answers |-> NilSlice, err |-> ""]
       \/ \E rcode \in {0, 1, 2, 3, 5, 15},
             body \in {<<>>, <<192>>, <<63>>, <<192, 12, 0, 1>>} :
            parse = [pc |-> "call", kinds |-> <<>>, how |-> "answer",
                     wellFormed |-> FALSE,
                     resp |-> WireHeader(rcode, 65535, 65535, 65535, 65535)
                                  \o body,
                     rcode |-> 0, answers |-> NilSlice, err |-> ""]
       \/ \E n \in {0, 11} :
            parse = [pc |-> "call", kinds |-> <<>>, how |-> "answer",
                     wellFormed |-> FALSE,
                     resp |-> [i \in 1..n |-> 0],
                     rcode |-> 0, answers |-> NilSlice, err |-> ""]
    /\ BuildIdle /\ ReadNameIdle /\ TCPIdle

\* The call returns.
ParseReturns ==
    /\ parse.pc = "call"
    /\ LET r == ParseDNSResponse(parse.resp)
       IN  parse' = [parse EXCEPT !.pc = "returned", !.rcode = r.rcode,
                                  !.answers = r.answers, !.err = r.err]
    /\ UNCHANGED <<build, rd, tcp>>
    /\ UNCHANGED nonCodecVars

InitParseSpec == PoolIdle /\ QueryIdle /\ ToolIdle /\ InitParse

SpecParse == InitParseSpec /\ [][ParseReturns]_vars

(***************************************************************************)
(* Properties of ParseDNSResponse.                                         *)
(***************************************************************************)

\* C16: for a response of at least 12 bytes whose flags end in a response
\* code other than 0, ParseDNSResponse returns that code, an empty list
\* that is not nil, and no error, whatever the counts and the body are; with
\* code 3 the executor's status is NXDomain.
C16_ErrorCodeSkipsBody ==
    (/\ parse.pc = "returned"
     /\ Len(parse.resp) >= 12
     /\ At(parse.resp, 3) % 16 # 0) =>
        /\ parse.rcode = At(parse.resp, 3) % 16
        /\ parse.answers = Slice(<<>>)
        /\ parse.err = ""
        /\ (parse.rcode = 3 =>
               determineStatus(parse.rcode,
                   SelectSeq(parse.answers.elems, IsAddressRecord))
                 = "nxdomain")

\* A response with code 3 and an A record in its answer section was decoded
\* to no answer.
C16_Witness ==
    /\ parse.pc = "returned"
    /\ parse.wellFormed
    /\ parse.rcode = 3
    /\ parse.how = "answer"
    /\ parse.kinds = <<"A">>
    /\ parse.answers = Slice(<<>>)

\* What a well-formed record of each kind is decoded to.
IsGoodKind(kind) == kind \in {"A", "AAAA", "MX", "TXT"}

Expected(kind) ==
    CASE kind = "A" -> Rec("A", <<93, 184, 216, 34>>, <<>>)
      [] kind = "AAAA" ->
           Rec("AAAA", <<258, 772, 1286, 1800, 2314, 2828, 3342, 3856>>, <<>>)
      [] kind = "MX" -> Rec("MX", <<10>>, <<<<109>>, <<97>>>>)
      [] kind = "TXT" -> Rec("TXT", <<>>, <<<<104, 105>>>>)
      [] OTHER -> NoRecord

MaxMsgLen == 3

\* The packets executeTCP is called with, by length.
PacketLens == {1, 37, 300}
Packet(n) == [i \in 1..n |-> i % 256]

\* The message the server answers with, by length.
Message(n) == [i \in 1..n |-> 200 + i]

\* What the server writes: the length of its message in 2 bytes, then the
\* message or, when it gives up early, only a part of it.
ServerStream(n, sent) == PutUint16(n) \o SubSeq(Message(n), 1, sent)

\* The connections of the process.  net.DialTimeout adds one, owned by the
\* call that dialled; Write and Read note the call that used it; conn.Close
\* closes it.  A call names its connection by its place in the list, 0 for
\* the nil conn of a failed dial.
ConnOpen(cs, k) == Append(cs, [owner |-> k, state |-> "open", usedBy |-> {}])
ConnUse(cs, id, k) == [cs EXCEPT ![id].usedBy = @ \cup {k}]
ConnLeak(cs, id) == cs
\* defer conn.Close(), run on every return behind the successful dial
ConnClose(cs, id) == [cs EXCEPT ![id].state = "closed"]

\* The k-th call of the process is a call of executeTCP, about to start.
TCPCall(k, p, n, sent) ==
    [pc |-> "dial", call |-> k, conn |-> 0,
     packet |-> Packet(p), declared |-> n, sent |-> sent,
     stream |-> ServerStream(n, sent), written |-> <<>>,
     responseLengthBuf |-> <<0, 0>>, responseLength |-> 0,
     responseBuffer |-> <<>>, totalRead |-> 0,
     ret |-> NilSlice, err |-> ""]

TCPCalls(k) ==
    {TCPCall(k, x[1], x[2], x[3]) :
        x \in {y \in PacketLens \X (0..MaxMsgLen) \X (0..MaxMsgLen) :
                  y[3] <= y[2]}}

\* A call of executeTCP is about to start.
InitTCP ==
    /\ tcp \in TCPCalls(1)
    /\ BuildIdle /\ ParseIdle /\ ReadNameIdle

\* return nil, fmt.Errorf(...) with the connection as the step left it in cs:
\* behind the successful dial the deferred conn.Close() runs.
TCPReturnsError(msg, cs) ==
    /\ tcp' = [tcp EXCEPT !.pc = "returned", !.ret = NilSlice, !.err = msg]
    /\ conns' = IF tcp.conn = 0 THEN cs ELSE ConnClose(cs, tcp.conn)

\* What a Write or a Read of the call does to its connection.
TCPUse == ConnUse(conns, tcp.conn, tcp.call)

\* net.DialTimeout and conn.SetDeadline
TCPDial ==
    /\ tcp.pc = "dial"
    /\ \E ok \in BOOLEAN :
         IF ok
         THEN /\ conns' = ConnOpen(conns, tcp.call)
              /\ tcp' = [tcp EXCEPT !.pc = "writePrefix",
                                    !.conn = Len(conns) + 1]
         ELSE TCPReturnsError("failed to dial", conns)
    /\ UNCHANGED <<build, parse, rd>>
    /\ UNCHANGED <<poolVars, queryVars, udp, scale, cli, expand>>

\* conn.Write(lengthPrefix)
TCPWritePrefix ==
    /\ tcp.pc = "writePrefix"
    /\ \E ok \in BOOLEAN :
         IF ok
         THEN LET messageLength == Len(tcp.packet) % 65536
                  lengthPrefix == <<messageLength \div 256, messageLength % 256>>
              IN  /\ tcp' = [tcp EXCEPT !.pc = "writePacket",
                                        !.written = @ \o lengthPrefix]
                  /\ conns' = TCPUse
         ELSE TCPReturnsError("failed to send length prefix", TCPUse)
    /\ UNCHANGED <<build, parse, rd>>
    /\ UNCHANGED <<poolVars, queryVars, udp, scale, cli, expand>>

\* conn.Write(packet)
TCPWritePacket ==
    /\ tcp.pc = "writePacket"
    /\ \E ok \in BOOLEAN :
         IF ok
         THEN /\ tcp' = [tcp EXCEPT !.pc = "readLength",
                                    !.written = @ \o tcp.packet]
              /\ conns' = TCPUse
         ELSE TCPReturnsError("failed to send packet", TCPUse)
    /\ UNCHANGED <<build, parse, rd>>
    /\ UNCHANGED <<poolVars, queryVars, udp, scale, cli, expand>>

\* conn.Read(responseLengthBuf), its count dropped, then the length from
\* both bytes of the buffer and make([]byte, responseLength).
TCPReadLength ==
    /\ tcp.pc = "readLength"
    /\ IF tcp.stream = <<>>
       THEN TCPReturnsError("failed to read response length", TCPUse)
       ELSE \E n \in 1..Min(2, Len(tcp.stream)) :
              LET buf == [i \in 1..2 |->
                            IF i <= n THEN tcp.stream[i]
                            ELSE tcp.responseLengthBuf[i]]
                  length == buf[1] * 256 + buf[2]
              IN  /\ tcp' = [tcp EXCEPT
                               !.stream = SubSeq(@, n + 1, Len(@)),
                               !.responseLengthBuf = buf,
                               !.responseLength = length,
                               !.responseBuffer = [i \in 1..length |-> 0],
                               !.totalRead = 0,
                               !.pc = "readBody"]
                  /\ conns' = TCPUse
    /\ UNCHANGED <<build, parse, rd>>
    /\ UNCHANGED <<poolVars, queryVars, udp, scale, cli, expand>>

\* The loop for totalRead < responseLength: one conn.Read into the rest of
\* the buffer, or the return behind the loop.
TCPReadBody ==
    /\ tcp.pc = "readBody"
    /\ IF tcp.totalRead >= tcp.responseLength
       THEN /\ tcp' = [tcp EXCEPT !.pc = "returned",
                                  !.ret = Slice(tcp.responseBuffer)]
            /\ conns' = ConnClose(conns, tcp.conn)
       ELSE IF tcp.stream = <<>>
       THEN TCPReturnsError("failed to read response", TCPUse)
       ELSE \E n \in 1..Min(tcp.responseLength - tcp.totalRead,
                            Len(tcp.stream)) :
              /\ tcp' = [tcp EXCEPT
                           !.stream = SubSeq(@, n + 1, Len(@)),
                           !.responseBuffer =
                               [i \in 1..tcp.responseLength |->
                                   IF i > tcp.totalRead
                                      /\ i <= tcp.totalRead + n
                                   THEN tcp.stream[i - tcp.totalRead]
                                   ELSE @[i]],
                           !.totalRead = @ + n]
              /\ conns' = TCPUse
    /\ UNCHANGED <<build, parse, rd>>
    /\ UNCHANGED <<poolVars, queryVars, udp, scale, cli, expand>>

NextTCP ==
    \/ TCPDial
    \/ TCPWritePrefix
    \/ TCPWritePacket
    \/ TCPReadLength
    \/ TCPReadBody

InitTCPSpec == PoolIdle /\ QueryIdle /\ ToolIdle /\ InitTCP

SpecTCP == InitTCPSpec /\ [][NextTCP]_vars

\* C20 (as claimed): executeTCP writes the length of the packet in 2 bytes,
\* high byte first, and then the packet; and when the server has sent its
\* whole answer, executeTCP returns without error the message the server
\* declared, all of it and nothing else, however the stream was cut into
\* reads.
C20_TCPFraming ==
    /\ (tcp.pc \in {"readLength", "readBody"} =>
           tcp.written = <<Len(tcp.packet) \div 256, Len(tcp.packet) % 256>>
                             \o tcp.packet)
    /\ (/\ tcp.pc = "returned"
        /\ tcp.sent = tcp.declared
        /\ Len(tcp.written) = 2 + Len(tcp.packet)) =>
           /\ tcp.err = ""
           /\ tcp.ret = Slice(Message(tcp.declared))

(***************************************************************************)
(* The transport: executeUDP, and the connections of executeUDP and        *)
(* executeTCP over the calls of one process, one call after the other.     *)
(***************************************************************************)

MaxCalls == 2
UDPBufferSize == 512

\* The datagram the server answers with, by length; -1 for no answer before
\* the deadline.
DatagramLens == {-1, 0, 12, 512, 513}
Datagram(n) == [i \in 1..n |-> (7 * i) % 256]

\* The k-th call of the process is a call of executeUDP, about to start.
UDPCall(k, p, n) ==
    [pc |-> "dial", call |-> k, conn |-> 0,
     packet |-> Packet(p), answer |-> n, written |-> <<>>,
     ret |-> NilSlice, err |-> ""]

UDPCalls(k) == {UDPCall(k, p, n) : p \in PacketLens, n \in DatagramLens}

InitUDP == udp \in UDPCalls(1)

\* return nil, fmt.Errorf(...) with the connection as the step left it in cs:
\* behind the successful dial the deferred conn.Close() runs.
UDPReturnsError(msg, cs) ==
    /\ udp' = [udp EXCEPT !.pc = "returned", !.ret = NilSlice, !.err = msg]
    /\ conns' = IF udp.conn = 0 THEN cs ELSE ConnClose(cs, udp.conn)

UDPUse == ConnUse(conns, udp.conn, udp.call)

\* net.DialTimeout and conn.SetDeadline
UDPDial ==
    /\ udp.pc = "dial"
    /\ \E ok \in BOOLEAN :
         IF ok
         THEN /\ conns' = ConnOpen(conns, udp.call)
              /\ udp' = [udp EXCEPT !.pc = "write", !.conn = Len(conns) + 1]
         ELSE UDPReturnsError("failed to dial", conns)
    /\ UNCHANGED <<scale, cli, expand>>
    /\ UNCHANGED nonToolVars

\* conn.Write(packet)
UDPWrite ==
    /\ udp.pc = "write"
    /\ \E ok \in BOOLEAN :
         IF ok
         THEN /\ udp' = [udp EXCEPT !.pc = "read", !.written = udp.packet]
              /\ conns' = UDPUse
         ELSE UDPReturnsError("failed to send packet", UDPUse)
    /\ UNCHANGED <<scale, cli, expand>>
    /\ UNCHANGED nonToolVars

\* conn.Read(responseBuffer) into 512 bytes and the return of
\* responseBuffer[:n]; the deadline expires when no datagram arrives.
UDPRead ==
    /\ udp.pc = "read"
    /\ IF udp.answer < 0
       THEN UDPReturnsError("failed to read response", UDPUse)
       ELSE LET n == Min(udp.answer, UDPBufferSize)
            IN  /\ udp' = [udp EXCEPT
                             !.pc = "returned",
                             !.ret = Slice(SubSeq(Datagram(udp.answer), 1, n))]
                /\ conns' = ConnClose(UDPUse, udp.conn)
    /\ UNCHANGED <<scale, cli, expand>>
    /\ UNCHANGED nonToolVars

NextUDP ==
    \/ UDPDial
    \/ UDPWrite
    \/ UDPRead

\* The call of the process that is running or has returned last.
ActiveCall == IF udp # NoCall THEN udp ELSE tcp

\* The process makes its next call, of either function, behind the return
\* of the one before.
NextCallUDP ==
    /\ ActiveCall.pc = "returned"
    /\ ActiveCall.call < MaxCalls
    /\ udp' \in UDPCalls(ActiveCall.call + 1)
    /\ tcp' = NoCall
    /\ UNCHANGED <<build, parse, rd>>
    /\ UNCHANGED <<poolVars, queryVars, scale, cli, expand, conns>>

NextCallTCP ==
    /\ ActiveCall.pc = "returned"
    /\ ActiveCall.call < MaxCalls
    /\ tcp' \in TCPCalls(ActiveCall.call + 1)
    /\ udp' = NoCall
    /\ UNCHANGED <<build, parse, rd>>
    /\ UNCHANGED <<poolVars, queryVars, scale, cli, expand, conns>>

InitTransport ==
    /\ \/ InitUDP /\ TCPIdle
       \/ InitTCP /\ UDPIdle
    /\ BuildIdle /\ ParseIdle /\ ReadNameIdle
    /\ ScaleIdle /\ CliIdle /\ ExpandIdle /\ NoConns

NextTransport ==
    \/ NextUDP /\ tcp = NoCall
    \/ NextTCP /\ udp = NoCall
    \/ NextCallUDP
    \/ NextCallTCP

InitTransportSpec == PoolIdle /\ QueryIdle /\ InitTransport

SpecTransport == InitTransportSpec /\ [][NextTransport]_vars

ConnsOf(k) == {i \in 1..Len(conns) : conns[i].owner = k}

\* C21: each call of executeUDP or executeTCP opens at most one connection;
\* only the call that opened a connection writes to it or reads from it; and
\* a connection is open only while the call that opened it is running: once
\* that call has returned, whether with its answer or with an error of the
\* dial, of a write or of a read (the deadline included), it is closed.
C21_ConnectionScopedToCall ==
    /\ \A k \in 1..MaxCalls : Cardinality(ConnsOf(k)) <= 1
    /\ \A i \in 1..Len(conns) :
         /\ conns[i].usedBy \subseteq {conns[i].owner}
         /\ (conns[i].state = "open" =>
                /\ conns[i].owner = ActiveCall.call
                /\ ActiveCall.pc # "returned"
                /\ ActiveCall.conn = i)

\* Two calls have returned, the second with its answer; each has opened a
\* connection of its own, used it, and left it closed.
C21_Witness ==
    /\ Len(conns) = 2
    /\ ActiveCall.pc = "returned"
    /\ ActiveCall.call = 2
    /\ ActiveCall.err = ""
    /\ \A i \in 1..2 : /\ conns[i].state = "closed"
                        /\ conns[i].owner = i
                        /\ conns[i].usedBy = {i}

(***************************************************************************)
(* config.CalculateOptimalWorkers, the worker count main takes for a batch *)
(* when no count is given on the command line.  A state holds two calls,   *)
(* so that the results for two batch sizes can be compared.                *)
(***************************************************************************)

MaxQueries == 12
MinWorkers == 1
MaxWorkers == 50
WorkersPerQuery == 5

\* The batch sizes: the small ones, and those around the branches and the cap.
QueryCounts == (0..MaxQueries) \cup {49, 50, 51, 99, 100, 224, 225, 226,
                                     499, 500, 1000}

CalculateOptimalWorkers(queryCount) ==
    IF queryCount <= 0 THEN MinWorkers
    ELSE LET workers ==
                 IF queryCount <= 10 THEN queryCount
                 ELSE IF queryCount <= 50
                 THEN IF queryCount \div WorkersPerQuery < 5 THEN 5
                      ELSE queryCount \div WorkersPerQuery
                 ELSE (queryCount \div WorkersPerQuery) + 5
         IN  IF workers < MinWorkers THEN MinWorkers
             ELSE IF workers > MaxWorkers THEN MaxWorkers
             ELSE workers

InitScale ==
    /\ scale \in [pc : {"call"}, n : QueryCounts, m : QueryCounts,
                  fn : {0}, fm : {0}]
    /\ UDPIdle /\ CliIdle /\ ExpandIdle /\ NoConns

\* Both calls return.
ScaleReturns ==
    /\ scale.pc = "call"
    /\ scale' = [scale EXCEPT !.pc = "returned",
                              !.fn = CalculateOptimalWorkers(scale.n),
                              !.fm = CalculateOptimalWorkers(scale.m)]
    /\ UNCHANGED <<udp, cli, expand, conns>>
    /\ UNCHANGED nonToolVars

InitScaleSpec == PoolIdle /\ QueryIdle /\ CodecIdle /\ InitScale

SpecScale == InitScaleSpec /\ [][ScaleReturns]_vars

\* C22 (as claimed): the worker count is non-decreasing in the batch size,
\* n <= m implies f(n) <= f(m), and lies in 1..50 for every batch size.
C22_ScaleMonotoneBounded ==
    scale.pc = "returned" =>
        /\ (scale.n <= scale.m => scale.fn <= scale.fm)
        /\ MinWorkers <= scale.fn /\ scale.fn <= MaxWorkers

\* The part of C22 the code keeps: the count lies in 1..50.
C22_ScaleBounded ==
    scale.pc = "returned" => MinWorkers <= scale.fn /\ scale.fn <= MaxWorkers

\* The formula of the README: min(max(n / 5, 1), 50).
ReadmeWorkers(n) ==
    LET q == n \div 5
        atLeast == IF q < 1 THEN 1 ELSE q
    IN  IF atLeast > 50 THEN 50 ELSE atLeast

\* C23 (as claimed): for every query count the auto-scaled worker count is
\* min(max(n / 5, 1), 50) with integer division; 10 queries give 2 workers,
\* 100 queries 20 workers, 500 or more queries 50 workers.
C23_ScaleIsReadmeFormula ==
    scale.pc = "returned" =>
        /\ scale.fn = ReadmeWorkers(scale.n)
        /\ (scale.n = 10 => scale.fn = 2)
        /\ (scale.n = 100 => scale.fn = 20)
        /\ (scale.n >= 500 => scale.fn = 50)

(***************************************************************************)
(* main: the DNS servers of the command line (config.ParseDNSServers), the *)
(* Config built from them, config.Validate, and the server ExecuteQuery    *)
(* takes from the Config for a query of one IP family.                     *)
(***************************************************************************)

MaxPort == 65535

\* A server argument of the command line: the host, the port written behind
\* it (0 when none is written) and whether the host is an IPv6 address.
ServerArg(host, port, v6) == [host |-> host, port |-> port, v6 |-> v6]

ServerArgs ==
    {ServerArg("8.8.8.8", 0, FALSE), ServerArg("1.1.1.1", 5353, FALSE),
     ServerArg("2620:fe::fe", 0, TRUE), ServerArg("2606:4700::1111", 5353, TRUE)}

\* The argument lists: none, one, two, and one list of three.
ServerArgLists ==
    {<<>>}
      \cup {<<a>> : a \in ServerArgs}
      \cup {<<a, b>> : a \in ServerArgs, b \in ServerArgs}
      \cup {<<ServerArg("8.8.8.8", 0, FALSE), ServerArg("1.1.1.1", 5353, FALSE),
              ServerArg("2620:fe::fe", 0, TRUE)>>}

\* parseServerAddress for a well-formed argument: the port is 53 when none
\* is written.
parseServerAddress(input) ==
    [server |-> input.host,
     port |-> IF input.port = 0 THEN DNSPort ELSE input.port]

Servers(v4, p4, v6, p6, e) ==
    [ipv4Server |-> v4, ipv4Port |-> p4, ipv6Server |-> v6, ipv6Port |-> p6,
     err |-> e]

ParseDNSServers(args) ==
    IF Len(args) = 0 THEN Servers("", 53, "", 53, "")
    ELSE IF Len(args) > 2
    THEN Servers("", 0, "", 0, "too many DNS server arguments")
    ELSE LET a1 == parseServerAddress(args[1])
             isIPv6_1 == args[1].v6
         IN  IF Len(args) = 1
             THEN Servers(a1.server, a1.port, a1.server, a1.port, "")
             ELSE LET a2 == parseServerAddress(args[2])
                      isIPv6_2 == args[2].v6
                  IN  IF ~isIPv6_1 /\ isIPv6_2
                      THEN Servers(a1.server, a1.port, a2.server, a2.port, "")
                      ELSE IF isIPv6_1 /\ ~isIPv6_2
                      THEN Servers(a2.server, a2.port, a1.server, a1.port, "")
                      ELSE Servers(a1.server, a1.port, a1.server, a1.port, "")

\* main behind ParseDNSServers: the defaults when no server is given.
ApplyDNSDefaults(sv) ==
    IF sv.ipv4Server = "" /\ sv.ipv6Server = ""
    THEN Servers("8.8.8.8", 53, "2001:4860:4860::8888", 53, "")
    ELSE sv

\* cfg := config.Config{...} of main; the fields ExecuteQuery and the pool
\* read.
MainConfig(sv, retryCount, workers) ==
    [DNSServerIPv4 |-> sv.ipv4Server,
     DNSServerIPv6 |-> sv.ipv6Server,
     DNSPort |-> sv.ipv4Port,
     TimeoutMs |-> 5000,
     RetryCount |-> retryCount,
     WorkerCount |-> workers]

\* config.Validate: the error, "" for nil.
Validate(c) ==
    IF c.DNSServerIPv4 = "" /\ c.DNSServerIPv6 = ""
    THEN "at least one DNS server (IPv4 or IPv6) must be configured"
    ELSE IF c.DNSPort < 1 \/ c.DNSPort > MaxPort THEN "invalid DNS port"
    ELSE IF c.TimeoutMs <= 0 THEN "timeout must be positive"
    ELSE IF c.RetryCount < 0 THEN "retry count cannot be negative"
    ELSE IF c.WorkerCount < 0 THEN "worker count cannot be negative"
    ELSE ""

\* ExecuteQuery: server := net.JoinHostPort(address, cfg.DNSPort), the
\* address by the IP version of the spec.
ServerFor(ipVersion, c) ==
    IF ipVersion = "ipv4" THEN <<c.DNSServerIPv4, c.DNSPort>>
    ELSE <<c.DNSServerIPv6, c.DNSPort>>

InitCli ==
    /\ cli \in [pc : {"parse"}, args : ServerArgLists,
                ipVersion : {"ipv4", "ipv6"}, retryCount : 0..MaxRetry,
                servers : {Servers("", 0, "", 0, "")},
                cfg : {MainConfig(Servers("", 0, "", 0, ""), 0, 0)},
                server : {<<"", 0>>}]
    /\ UDPIdle /\ ScaleIdle /\ ExpandIdle /\ NoConns

\* config.ParseDNSServers(dnsServers...), os.Exit(1) on its error, and the
\* defaults.
CliParse ==
    /\ cli.pc = "parse"
    /\ LET sv == ParseDNSServers(cli.args)
       IN  cli' = IF sv.err # ""
                  THEN [cli EXCEPT !.pc = "exit", !.servers = sv]
                  ELSE [cli EXCEPT !.pc = "config",
                                   !.servers = ApplyDNSDefaults(sv)]
    /\ UNCHANGED <<udp, scale, expand, conns>>
    /\ UNCHANGED nonToolVars

\* The Config and config.Validate(cfg), os.Exit(1) on its error.
CliConfig ==
    /\ cli.pc = "config"
    /\ LET c == MainConfig(cli.servers, cli.retryCount, 1)
       IN  cli' = [cli EXCEPT !.cfg = c,
                              !.pc = IF Validate(c) # "" THEN "exit"
                                     ELSE "query"]
    /\ UNCHANGED <<udp, scale, expand, conns>>
    /\ UNCHANGED nonToolVars

\* A query of the batch determines its server.
CliQuery ==
    /\ cli.pc = "query"
    /\ cli' = [cli EXCEPT !.pc = "queried",
                          !.server = ServerFor(cli.ipVersion, cli.cfg)]
    /\ UNCHANGED <<udp, scale, expand, conns>>
    /\ UNCHANGED nonToolVars

NextCli ==
    \/ CliParse
    \/ CliConfig
    \/ CliQuery

InitCliSpec == PoolIdle /\ QueryIdle /\ CodecIdle /\ InitCli

SpecCli == InitCliSpec /\ [][NextCli]_vars

\* C24 (as claimed): a query of family v6 is sent to the IPv6 server on the
\* port given for the IPv6 server, a query of family v4 to the IPv4 server
\* on the port given for the IPv4 server, also when the two ports differ.
C24_ServerAndPortByFamily ==
    cli.pc = "queried" =>
        cli.server = IF cli.ipVersion = "ipv4"
                     THEN <<cli.servers.ipv4Server, cli.servers.ipv4Port>>
                     ELSE <<cli.servers.ipv6Server, cli.servers.ipv6Port>>

(***************************************************************************)
(* main and ExecuteQuery together: a query of the batch runs with the      *)
(* Config main built from the servers of the command line.                 *)
(***************************************************************************)

\* ExecuteQuery is called for a spec of the batch with the Config of main.
CliStartsQuery ==
    /\ cli.pc = "query"
    /\ qpc = "idle"
    /\ cli' = [cli EXCEPT !.pc = "queried",
                          !.server = ServerFor(cli.ipVersion, cli.cfg)]
    /\ cfgRetry' = cli.cfg.RetryCount
    /\ cfgV4' = cli.cfg.DNSServerIPv4
    /\ cfgV6' = cli.cfg.DNSServerIPv6
    /\ qIP' = cli.ipVersion
    /\ qTransport' = "udp"
    /\ qDomain' = <<"example", "com">>
    /\ qpc' = "start"
    /\ UNCHANGED <<attempt, server, network, err, response, res, events>>
    /\ UNCHANGED <<udp, scale, expand, conns>>
    /\ UNCHANGED <<poolVars, codecVars>>

NextFailover ==
    \/ CliParse
    \/ CliConfig
    \/ CliStartsQuery
    \/ NextQuery

SpecFailover == InitCliSpec /\ [][NextFailover]_vars

\* The servers of the command line as the README names them.
Primary == cli.args[1].host
Secondary == cli.args[2].host

\* C25 (as claimed): with two DNS servers given, primary and secondary, a
\* query whose exchange with the primary failed makes a later attempt with
\* the secondary, as long as it has an attempt left.
C25_FailoverToSecondary ==
    (/\ qpc = "done"
     /\ Len(cli.args) = 2
     /\ Primary # Secondary
     /\ cfgRetry >= 1
     /\ MainExchanges[1].server[1] = Primary
     /\ MainExchanges[1].err # "")
        => \E i \in 2..Len(MainExchanges) :
              MainExchanges[i].server[1] = Secondary

(***************************************************************************)
(* main.expandToAllTypes with query.ExpandToAllTypes and GetAllQueryTypes. *)
(* A Go map is a function on its keys; ranging over it visits the keys in  *)
(* an order that is not determined.                                        *)
(***************************************************************************)

MaxSpecs == 3

QuerySpec(domain, queryType, transport, ipVersion) ==
    [Domain |-> domain, QueryType |-> queryType, Transport |-> transport,
     IPVersion |-> ipVersion]

\* The specs of the input: three domains, each with either of two pairs of
\* transport and IP family, as a query for A or for ANY.
InputSpecs ==
    {QuerySpec(d, t, x[1], x[2]) :
        d \in {"a.com", "b.com", "c.com"},
        t \in {QueryTypeA, QueryTypeANY},
        x \in {<<"udp", "ipv4">>, <<"tcp", "ipv6">>}}

RECURSIVE SeqsUpTo(_, _)
SeqsUpTo(S, n) ==
    IF n = 0 THEN {<<>>}
    ELSE LET shorter == SeqsUpTo(S, n - 1)
         IN  shorter \cup {Append(q, x) : q \in shorter, x \in S}

GetAllQueryTypes ==
    <<QueryTypeA, QueryTypeAAAA, QueryTypeMX, QueryTypeTXT, QueryTypeNS,
      QueryTypeSOA, QueryTypeCNAME, QueryTypePTR, QueryTypeSRV>>

ExpandToAllTypes(domain, transport, ipVersion) ==
    [i \in 1..Len(GetAllQueryTypes) |->
        QuerySpec(domain, GetAllQueryTypes[i], transport, ipVersion)]

\* A grouping in which a later spec of a domain replaces the earlier one.
RECURSIVE GroupByDomainLastWins(_)
GroupByDomainLastWins(specs) ==
    IF specs = <<>> THEN <<>>
    ELSE LET spec == specs[Len(specs)]
             domainMap == GroupByDomainLastWins(SubSeq(specs, 1, Len(specs) - 1))
         IN  [d \in DOMAIN domainMap \cup {spec.Domain} |->
                 IF d = spec.Domain THEN spec ELSE domainMap[d]]

\* The first loop of expandToAllTypes: domainMap after all specs, a spec
\* entered only when its domain is not yet a key.
RECURSIVE GroupByDomain(_)
GroupByDomain(specs) ==
    IF specs = <<>> THEN <<>>
    ELSE LET spec == specs[Len(specs)]
             domainMap == GroupByDomain(SubSeq(specs, 1, Len(specs) - 1))
         IN  IF spec.Domain \in DOMAIN domainMap THEN domainMap
             ELSE [d \in DOMAIN domainMap \cup {spec.Domain} |->
                     IF d = spec.Domain THEN spec ELSE domainMap[d]]

InitExpand ==
    /\ expand \in [pc : {"group"}, specs : SeqsUpTo(InputSpecs, MaxSpecs),
                   domainMap : {<<>>}, visited : {{}}, expanded : {NilSlice}]
    /\ UDPIdle /\ ScaleIdle /\ CliIdle /\ NoConns

ExpandGroup ==
    /\ expand.pc = "group"
    /\ expand' = [expand EXCEPT !.pc = "range",
                                !.domainMap = GroupByDomain(expand.specs)]
    /\ UNCHANGED <<udp, scale, cli, conns>>
    /\ UNCHANGED nonToolVars

\* One iteration of the range over domainMap, on any key not yet visited.
ExpandDomain ==
    /\ expand.pc = "range"
    /\ \E d \in DOMAIN expand.domainMap \ expand.visited :
         LET spec == expand.domainMap[d]
             allTypeSpecs == ExpandToAllTypes(spec.Domain, spec.Transport,
                                              spec.IPVersion)
         IN  expand' = [expand EXCEPT
                          !.visited = @ \cup {d},
                          !.expanded = Slice(@.elems \o allTypeSpecs)]
    /\ UNCHANGED <<udp, scale, cli, conns>>
    /\ UNCHANGED nonToolVars

ExpandReturns ==
    /\ expand.pc = "range"
    /\ DOMAIN expand.domainMap = expand.visited
    /\ expand' = [expand EXCEPT !.pc = "returned"]
    /\ UNCHANGED <<udp, scale, cli, conns>>
    /\ UNCHANGED nonToolVars

NextExpand ==
    \/ ExpandGroup
    \/ ExpandDomain
    \/ ExpandReturns

InitExpandSpec == PoolIdle /\ QueryIdle /\ CodecIdle /\ InitExpand

SpecExpand == InitExpandSpec /\ [][NextExpand]_vars

InputDomains == {expand.specs[i].Domain : i \in DOMAIN expand.specs}

\* The place of the first spec of domain d in the input.
FirstOccurrence(d) ==
    CHOOSE i \in DOMAIN expand.specs :
        /\ expand.specs[i].Domain = d
        /\ \A j \in 1..(i - 1) : expand.specs[j].Domain # d

AllTypes == Range(GetAllQueryTypes)

\* C26: for an input with D distinct domains expandToAllTypes returns
\* exactly 9*D specs: for each distinct domain exactly one spec for each of
\* A, AAAA, MX, TXT, NS, SOA, CNAME, PTR and SRV, none for ANY and none for
\* another domain, each with the transport and the IP family of the first
\* spec of that domain in the input.
C26_NinePerDistinctDomain ==
    expand.pc = "returned" =>
        LET out == expand.expanded.elems
        IN  /\ Len(out) = 9 * Cardinality(InputDomains)
            /\ AllTypes = {1, 28, 15, 16, 2, 6, 5, 12, 33}
            /\ \A d \in InputDomains, t \in AllTypes :
                 Cardinality({i \in DOMAIN out :
                                 out[i].Domain = d /\ out[i].QueryType = t}) = 1
            /\ \A i \in DOMAIN out :
                 /\ out[i].QueryType # QueryTypeANY
                 /\ out[i].Domain \in InputDomains
                 /\ LET first == expand.specs[FirstOccurrence(out[i].Domain)]
                    IN  /\ out[i].Transport = first.Transport
                        /\ out[i].IPVersion = first.IPVersion

\* The input names two domains in three specs, the repeated domain with
\* another transport and IP family the second time, and asks for ANY; the
\* expansion has returned its 18 specs.
C26_Witness ==
    /\ expand.pc = "returned"
    /\ Len(expand.specs) = 3
    /\ Cardinality(InputDomains) = 2
    /\ expand.specs[1].Domain = expand.specs[3].Domain
    /\ expand.specs[1].Transport # expand.specs[3].Transport
    /\ expand.specs[1].QueryType = QueryTypeANY
    /\ Len(expand.expanded.elems) = 18

(***************************************************************************)
(* Two calls of BuildDNSQuery for the same domain and record type, each    *)
(* with the transaction id rand.Intn drew for it.                          *)
(***************************************************************************)

TxIDs == {0, 4660, 65535}

InitBuildPair ==
    /\ build \in [pc : {"first"}, domain : BuildDomains,
                  queryType : {QueryTypeA, QueryTypeANY},
                  txID : TxIDs \X TxIDs,
                  packet : {<<NilSlice, NilSlice>>}, err : {<<"", "">>}]
    /\ ParseIdle /\ ReadNameIdle /\ TCPIdle

BuildPairFirst ==
    /\ build.pc = "first"
    /\ LET r == BuildDNSQuery(build.domain, build.queryType, build.txID[1])
       IN  build' = [build EXCEPT !.pc = "second", !.packet[1] = r.packet,
                                  !.err[1] = r.err]
    /\ UNCHANGED <<parse, rd, tcp>>
    /\ UNCHANGED nonCodecVars

BuildPairSecond ==
    /\ build.pc = "second"
    /\ LET r == BuildDNSQuery(build.domain, build.queryType, build.txID[2])
       IN  build' = [build EXCEPT !.pc = "returned", !.packet[2] = r.packet,
                                  !.err[2] = r.err]
    /\ UNCHANGED <<parse, rd, tcp>>
    /\ UNCHANGED nonCodecVars

NextBuildPair ==
    \/ BuildPairFirst
    \/ BuildPairSecond

InitBuildPairSpec == PoolIdle /\ QueryIdle /\ ToolIdle /\ InitBuildPair

SpecBuildPair == InitBuildPairSpec /\ [][NextBuildPair]_vars

\* The name on the wire: each label behind its length, then the byte 0.
RECURSIVE WireName(_)
WireName(labels) ==
    IF labels = <<>> THEN <<0>>
    ELSE <<Len(Head(labels))>> \o Head(labels) \o WireName(Tail(labels))

\* C27: two packets BuildDNSQuery builds for the same domain and record
\* type are equal in every byte but bytes 0-1, which hold the transaction
\* id of each; bytes 2-11 are 01 00 00 01 00 00 00 00 00 00; behind them
\* come the name in labels, the type in 16 bits and the class 1.  The two
\* calls also fail together, with the same error.
C27_PacketsEqualButID ==
    build.pc = "returned" =>
        /\ build.err[1] = build.err[2]
        /\ build.packet[1].isNil = build.packet[2].isNil
        /\ build.err[1] = "" =>
             LET p == build.packet[1].elems
                 q == build.packet[2].elems
             IN  /\ Len(p) = Len(q)
                 /\ \A i \in 3..Len(p) : p[i] = q[i]
                 /\ SubSeq(p, 1, 2) = <<build.txID[1] \div 256,
                                        build.txID[1] % 256>>
                 /\ SubSeq(q, 1, 2) = <<build.txID[2] \div 256,
                                        build.txID[2] % 256>>
                 /\ SubSeq(p, 3, 12) = <<1, 0, 0, 1, 0, 0, 0, 0, 0, 0>>
                 /\ SubSeq(p, 13, Len(p)) =
                        WireName(WithoutTrailingDot(build.domain))
                            \o <<build.queryType \div 256,
                                 build.queryType % 256>>
                            \o <<0, 1>>

\* Two packets were built for a name of two labels with different
\* transaction ids.
C27_Witness ==
    /\ build.pc = "returned"
    /\ build.err = <<"", "">>
    /\ build.txID[1] # build.txID[2]
    /\ Len(build.domain) = 2
    /\ build.packet[1].elems # build.packet[2].elems

(***************************************************************************)
(* The pool under every worker count config.Validate lets through.         *)
(***************************************************************************)

\* The Config of a run with the default servers and the pool's worker count.
PoolConfig ==
    MainConfig(ApplyDNSDefaults(ParseDNSServers(<<>>)), 0, workerCount)

\* C28 (as claimed): for every worker count that Validate accepts, 0
\* included, and every non-empty list of specs, ExecuteWithProgress returns
\* one result per submitted spec, and when it has returned the submitter has
\* closed the input queue and every worker has left it: no goroutine is
\* blocked on the input queue.
C28_AcceptedCountServesBatch ==
    (/\ Validate(PoolConfig) = ""
     /\ totalJobs >= 1
     /\ mainPc = "returned")
        => /\ OneResultPerSpec
           /\ subPc = "done"
           /\ AllWorkersExited

(***************************************************************************)
(* The pool: who holds which spec.                                         *)
(***************************************************************************)

\* The workers that are inside query.ExecuteQuery.
Executing == {w \in Workers : wpc[w] = "exec"}

\* The workers that hold a spec: taken from the queue, its result not yet
\* sent.
Holding == {w \in Workers : wspec[w] # 0}

\* How often spec i occurs in a sequence.
Occurrences(q, i) == Cardinality({k \in DOMAIN q : q[k] = i})

\* C30: in a pool started with W workers at most W queries are in execution
\* at the same time; a worker holds a spec exactly while it executes it or
\* sends its result, and then one spec only; and a spec taken from the input
\* queue is with exactly one worker, or its one result is on the way to the
\* caller, never both and never twice: no spec is executed by two workers.
C30_OneWorkerPerSpec ==
    /\ Cardinality(Executing) <= workerCount
    /\ \A w \in Workers :
         /\ wspec[w] \in 0..totalJobs
         /\ (wspec[w] # 0 <=> wpc[w] \in {"exec", "send", "panic"})
    /\ \A w, v \in Holding : w # v => wspec[w] # wspec[v]
    /\ \A i \in 1..totalJobs :
         LET held == Cardinality({w \in Holding : wspec[w] = i})
             there == Occurrences(jobs, i) + held + Occurrences(results, i)
                          + Occurrences(collected, i)
         IN  there = IF i < subI THEN 1 ELSE 0

\* Both workers of a pool are executing a query, each for a spec of its own,
\* while the third spec waits in the input queue.
C30_Witness ==
    /\ workerCount = 2
    /\ Executing = {1, 2}
    /\ wspec[1] # wspec[2]
    /\ Len(jobs) = 1

(***************************************************************************)
(* The wire codec: the bytes ParseDNSResponse, parseRecord, readDomainName *)
(* and skipDomainName read.  Each operator follows the control flow of its *)
(* function and returns the set of the offsets the function indexes, a     *)
(* slice data[a:b] counting as the offsets a to b-1.  An offset that is    *)
(* not below len(data) is a panic of the Go program.                       *)
(***************************************************************************)

TypeCAA == 257

RECURSIVE SkipNameReads(_, _)
SkipNameReads(data, offset) ==
    IF offset >= Len(data) THEN {}
    ELSE {offset} \cup
         LET length == At(data, offset)
         IN  IF length >= 192 \/ length = 0 THEN {}
             ELSE SkipNameReads(data, offset + 1 + length)

\* One iteration of the loop of readDomainName.
ReadNameIterReads(st) ==
    LET data == st.data
        offset == st.offset
    IN  IF offset >= Len(data) \/ offset \in st.visited THEN {}
        ELSE {offset} \cup
             LET length == At(data, offset)
             IN  IF length >= 192
                 THEN IF offset + 1 >= Len(data) THEN {} ELSE {offset + 1}
                 ELSE IF length = 0 \/ offset + 1 + length > Len(data) THEN {}
                 ELSE (offset + 1)..(offset + length)

RECURSIVE ReadNameRunReads(_)
ReadNameRunReads(st) ==
    IF st.pc = "returned" THEN {}
    ELSE ReadNameIterReads(st) \cup ReadNameRunReads(ReadNameIter(st))

ReadNameReads(data, offset) == ReadNameRunReads(ReadNameStart(data, offset))

RECURSIVE TxtReads(_, _, _)
TxtReads(data, txtOffset, endOffset) ==
    IF txtOffset >= endOffset THEN {}
    ELSE {txtOffset} \cup
         LET strLen == At(data, txtOffset)
         IN  IF txtOffset + 1 + strLen > endOffset THEN {}
             ELSE ((txtOffset + 1)..(txtOffset + strLen))
                      \cup TxtReads(data, txtOffset + 1 + strLen, endOffset)

\* An address that is read whatever the record says its length is.
AddressReadsAnyLength(offset, rdLength, size) ==
    offset..(offset + size - 1)

\* parseRecord, A and AAAA: the size bytes of the address, read only when
\* the record has exactly that many.
AddressReads(offset, rdLength, size) ==
    IF rdLength = size THEN offset..(offset + size - 1) ELSE {}

\* parseRecord; the case of CAA is the one of the revision that has it.
RecordReads(data, offset, recordType, rdLength) ==
    CASE recordType = QueryTypeA -> AddressReads(offset, rdLength, 4)
      [] recordType = QueryTypeAAAA -> AddressReads(offset, rdLength, 16)
      [] recordType \in {QueryTypeCNAME, QueryTypePTR, QueryTypeNS,
                         QueryTypeSOA} ->
           ReadNameReads(data, offset)
      [] recordType = QueryTypeMX ->
           IF rdLength >= 4
           THEN {offset, offset + 1} \cup ReadNameReads(data, offset + 2)
           ELSE {}
      [] recordType = QueryTypeTXT -> TxtReads(data, offset, offset + rdLength)
      [] recordType = QueryTypeSRV ->
           IF rdLength >= 8
           THEN (offset..(offset + 5)) \cup ReadNameReads(data, offset + 6)
           ELSE {}
      [] recordType = TypeCAA ->
           IF rdLength >= 4
           THEN {offset, offset + 1} \cup
                LET tagLen == At(data, offset + 1)
                IN  IF offset + 2 + tagLen <= offset + rdLength
                    THEN (offset + 2)..(offset + rdLength - 1)
                    ELSE {}
           ELSE {}
      [] OTHER -> {}

RECURSIVE QuestionsReads(_, _, _)
QuestionsReads(resp, offset, count) ==
    IF count = 0 THEN {}
    ELSE SkipNameReads(resp, offset) \cup
         LET sk == skipDomainName(resp, offset)
         IN  IF sk.err # "" THEN {}
             ELSE QuestionsReads(resp, sk.offset + 4, count - 1)

RECURSIVE RecordsReads(_, _, _)
RecordsReads(resp, offset, count) ==
    IF count = 0 \/ offset >= Len(resp) THEN {}
    ELSE SkipNameReads(resp, offset) \cup
         LET sk == skipDomainName(resp, offset)
         IN  IF sk.err # "" \/ sk.offset + 10 > Len(resp) THEN {}
             ELSE {sk.offset, sk.offset + 1, sk.offset + 8, sk.offset + 9}
                  \cup
                  LET recordType == Uint16(resp, sk.offset)
                      rdLength == Uint16(resp, sk.offset + 8)
                      rdata == sk.offset + 10
                  IN  IF rdata + rdLength > Len(resp) THEN {}
                      ELSE RecordReads(resp, rdata, recordType, rdLength)
                             \cup RecordsReads(resp, rdata + rdLength,
                                               count - 1)

\* ParseDNSResponse
ResponseReads(resp) ==
    IF Len(resp) < 12 THEN {}
    ELSE (2..11) \cup
         IF Uint16(resp, 2) % 16 # 0 THEN {}
         ELSE LET questionCount == Uint16(resp, 4)
                  totalRecords == Uint16(resp, 6) + Uint16(resp, 8)
                                      + Uint16(resp, 10)
                  q == SkipQuestions(resp, 12, questionCount)
              IN  QuestionsReads(resp, 12, questionCount) \cup
                  IF q.err # "" THEN {}
                  ELSE RecordsReads(resp, q.offset, totalRecords)

(***************************************************************************)
(* The byte sequences ParseDNSResponse is explored with for its reads:     *)
(* responses with records of every type parseRecord knows, sound ones and  *)
(* ones whose data is short, whose names point or run behind the packet,   *)
(* whose stated data length is off by one, each cut off at every length;   *)
(* headers that promise 65535 records; and every short body of a few byte  *)
(* values behind a header that announces one question and one record.      *)
(***************************************************************************)

FuzzKinds ==
    {"A", "A0", "AAAA", "AAAA4", "NS", "NSpast", "CNAMElabel", "PTRself",
     "MX", "MX4", "MX2", "TXT", "TXTpast", "SOA", "SRV", "SRV7", "CAA",
     "CAAtag", "T99"}

FuzzType(kind) ==
    CASE kind \in {"A", "A0"} -> QueryTypeA
      [] kind \in {"AAAA", "AAAA4"} -> QueryTypeAAAA
      [] kind \in {"NS", "NSpast"} -> QueryTypeNS
      [] kind = "CNAMElabel" -> QueryTypeCNAME
      [] kind = "PTRself" -> QueryTypePTR
      [] kind \in {"MX", "MX4", "MX2"} -> QueryTypeMX
      [] kind \in {"TXT", "TXTpast"} -> QueryTypeTXT
      [] kind = "SOA" -> QueryTypeSOA
      [] kind \in {"SRV", "SRV7"} -> QueryTypeSRV
      [] kind \in {"CAA", "CAAtag"} -> TypeCAA
      [] OTHER -> 99

\* The data of a record that is written at offset at.
FuzzRdata(kind, at) ==
    CASE kind = "A" -> <<93, 184, 216, 34>>
      [] kind = "A0" -> <<>>
      [] kind = "AAAA" -> [i \in 1..16 |-> i]
      [] kind = "AAAA4" -> <<1, 2, 3, 4>>
      [] kind = "NS" -> <<2, 110, 115, 192, 12>>
      [] kind = "NSpast" -> <<192, 255>>
      [] kind = "CNAMElabel" -> <<5, 97>>
      [] kind = "PTRself" -> <<192, at>>
      [] kind = "MX" -> <<0, 10, 1, 109, 192, 12>>
      [] kind = "MX4" -> <<0, 10, 192, 12>>
      [] kind = "MX2" -> <<0, 10>>
      [] kind = "TXT" -> <<2, 104, 105, 1, 33>>
      [] kind = "TXTpast" -> <<9, 104>>
      [] kind = "SOA" -> <<1, 97, 192, 12, 1, 98, 0>> \o [i \in 1..20 |-> 0]
      [] kind = "SRV" -> <<0, 1, 0, 2, 0, 80, 192, 12>>
      [] kind = "SRV7" -> <<0, 1, 0, 2, 0, 80, 0>>
      [] kind = "CAA" -> <<0, 5, 105, 115, 115, 117, 101, 108, 101>>
      [] kind = "CAAtag" -> <<0, 200, 1, 2>>
      [] OTHER -> <<7, 7>>

\* A record whose stated data length is off by delta.
FuzzRecord(kind, at, delta) ==
    LET rdata == FuzzRdata(kind, at + 12)
        stated == IF Len(rdata) + delta < 0 THEN 0 ELSE Len(rdata) + delta
    IN  <<192, 12>> \o PutUint16(FuzzType(kind)) \o PutUint16(ClassIN)
            \o <<0, 0, 0, 60>> \o PutUint16(stated) \o rdata

RECURSIVE FuzzRecords(_, _, _)
FuzzRecords(kinds, at, delta) ==
    IF kinds = <<>> THEN <<>>
    ELSE LET first == FuzzRecord(Head(kinds), at, delta)
         IN  first \o FuzzRecords(Tail(kinds), at + Len(first), delta)

FuzzKindSeqs ==
    {<<>>} \cup {<<k>> : k \in FuzzKinds}
           \cup {<<k, l>> : k \in FuzzKinds, l \in FuzzKinds}

FuzzResponse(kinds, delta) ==
    WireHeader(0, 1, Len(kinds), 0, 0) \o WireQuestion
        \o FuzzRecords(kinds, 12 + Len(WireQuestion), delta)

\* Every response above, whole and cut off at every length.
CutResponses ==
    UNION {{SubSeq(FuzzResponse(kinds, delta), 1, n) :
                n \in 0..Len(FuzzResponse(kinds, delta))} :
              kinds \in FuzzKindSeqs, delta \in {-1, 0, 1}}

JunkResponses ==
    {WireHeader(rcode, 65535, 65535, 65535, 65535) \o body :
        rcode \in {0, 3},
        body \in {<<>>, <<192>>, <<63>>, <<192, 12, 0, 1>>,
                  [i \in 1..40 |-> 0], [i \in 1..40 |-> 192]}}

SoupBytes == {0, 1, 192, 255}

SoupResponses ==
    {WireHeader(0, 1, 1, 0, 0) \o body :
        body \in UNION {[1..n -> SoupBytes] : n \in 0..4}}

AnyResponses == CutResponses \cup JunkResponses \cup SoupResponses

InitParseAny ==
    /\ parse \in [pc : {"call"}, resp : AnyResponses, reads : {{}},
                  err : {""}]
    /\ BuildIdle /\ ReadNameIdle /\ TCPIdle

\* The call returns, having read what it read.
ParseAnyReturns ==
    /\ parse.pc = "call"
    /\ parse' = [parse EXCEPT !.pc = "returned",
                              !.reads = ResponseReads(parse.resp),
                              !.err = ParseDNSResponse(parse.resp).err]
    /\ UNCHANGED <<build, rd, tcp>>
    /\ UNCHANGED nonCodecVars

InitParseAnySpec == PoolIdle /\ QueryIdle /\ ToolIdle /\ InitParseAny

SpecParseAny == InitParseAnySpec /\ [][ParseAnyReturns]_vars

\* C29: for every byte sequence ParseDNSResponse returns, with a result or
\* with an error, and every offset at which ParseDNSResponse, parseRecord,
\* readDomainName or skipDomainName has indexed the buffer lies below its
\* length: there is no access out of range.
C29_ReadsInRange ==
    parse.pc = "returned" =>
        \A i \in parse.reads : 0 <= i /\ i < Len(parse.resp)

\* A response with an A record and an MX record was cut off right behind
\* the stated data length of the MX record: it has been parsed without
\* error, the header of the MX record read up to the last byte of the
\* buffer.
C29_Witness ==
    LET full == FuzzResponse(<<"A", "MX">>, 0)
        cut == Len(full) - Len(FuzzRdata("MX", 0))
    IN  /\ parse.pc = "returned"
        /\ parse.resp = SubSeq(full, 1, cut)
        /\ parse.err = ""
        /\ cut - 1 \in parse.reads

====
